---- MODULE Spec2Model ----
(***************************************************************************)
(* Model of the cosense-archiver core: the line / markup parser            *)
(* (src/parser/line-parser.ts) and the link graph engine                   *)
(* (src/analyzer/link-analyzer.ts).                                        *)
(*                                                                         *)
(* A string is a sequence of characters; a character is a one-element      *)
(* TLA+ string.  The characters outside ASCII that the code names are      *)
(* written as tokens: "<U+3000>" is the ideographic space, "<U+300D>",     *)
(* "<U+FF09>" and "<U+3011>" are the closing brackets of the hashtag rule  *)
(* and "<U+0060>" is the backtick.                                         *)
(***************************************************************************)
EXTENDS Integers, Sequences, FiniteSets, TLC

VARIABLES
    pages,       \* the page list the caller holds
    graph,       \* the LinkGraph last returned by buildLinkGraph (NoGraph before)
    history,     \* the buildLinkGraph calls so far: page list, graph returned,
                 \* and the change made to the page list since the call before
    edit,        \* the change made to the page list since the last build
    result,      \* the last query on the graph and what it returned
    input,       \* the lines parseLines is called with
    results,     \* results of parseLines: the ParsedLine of every line done
    blockOpen,   \* inCodeBlock of parseLines
    blockIndent, \* codeBlockIndent of parseLines
    files,       \* the pages directory: file name -> title of the page written
    written,     \* i of the page loop of main: the pages written so far
    upload,      \* the uploadImageToGyazo call: arguments, position, outcome
    requests,    \* the file and network requests the call has made, in order
    call,        \* the worker-pool call: function, urls, concurrency
    queue,       \* queue of the pool: the urls not yet taken
    workers,     \* the workers of the pool: position and url of each
    poolResults, \* results of the pool, in the order of insertion
    completed,   \* completed of the pool
    progress,    \* the onProgress calls made, in order
    taken,       \* the urls shifted from the queue, in order
    returned     \* whether the promise of the pool has resolved

vars == <<pages, graph, history, edit, result,
          input, results, blockOpen, blockIndent,
          files, written, upload, requests,
          call, queue, workers, poolResults, completed, progress, taken, returned>>

\* the variables of a parseLines call
parserVars == <<input, results, blockOpen, blockIndent>>

\* the variables of the page list and its graph
graphVars == <<pages, graph, history, edit, result>>

\* the variables of the page loop of main
outputVars == <<files, written>>

\* the variables of an uploadImageToGyazo call
uploadVars == <<upload, requests>>

\* the variables of a worker pool
poolVars == <<call, queue, workers, poolResults, completed, progress, taken, returned>>

\* the variables outside the parser and the graph
ioVars == <<outputVars, uploadVars, poolVars>>

-----------------------------------------------------------------------------
(* Strings                                                                 *)

Range(s) == {s[i] : i \in DOMAIN s}

StartsWith(s, p) == Len(s) >= Len(p) /\ SubSeq(s, 1, Len(p)) = p

EndsWith(s, p) == Len(s) >= Len(p) /\ SubSeq(s, Len(s) - Len(p) + 1, Len(s)) = p

\* s.slice(n): the string from 0-based index n on
Slice(s, n) == SubSeq(s, n + 1, Len(s))

\* \s of a JavaScript regular expression, over the characters of the model
IsSpace(c) == c \in {" ", "\t", "<U+3000>"}

\* \w of a JavaScript regular expression, over the characters of the model
IsWord(c) == c \in {"a", "b", "c", "d", "e", "f", "g", "h", "i", "j", "k", "l",
                    "m", "n", "o", "p", "q", "r", "s", "t", "u", "v", "w", "x",
                    "y", "z", "A", "B", "C", "D", "G", "N", "P", "T", "0", "1",
                    "2", "3", "4", "5", "6", "7", "8", "9", "_"}

\* the i flag of a regular expression: the lower-case form of a character
Lower(c) == CASE c = "A" -> "a" [] c = "B" -> "b" [] c = "C" -> "c"
              [] c = "D" -> "d" [] c = "G" -> "g" [] c = "N" -> "n"
              [] c = "P" -> "p" [] c = "T" -> "t" [] OTHER -> c

LowerStr(s) == [i \in DOMAIN s |-> Lower(s[i])]

\* the character classes the regular expressions of the parser scan for
InClass(class, c) ==
    CASE class = "space"        -> IsSpace(c)
      [] class = "notspace"     -> ~IsSpace(c)
      [] class = "close"        -> c = "]"
      [] class = "tick"         -> c = "<U+0060>"
      [] class = "spaceOrClose" -> IsSpace(c) \/ c = "]"
      [] class = "tagEnd"       -> IsSpace(c) \/ c \in {"[", "]", "#"}
      [] class = "notstar"      -> c # "*"
      [] class = "slash"        -> c = "/"

\* 1-based index of the first character of s at or after position i that
\* is in the class, or Len(s) + 1
RECURSIVE FirstFrom(_, _, _)
FirstFrom(s, i, class) ==
    IF i > Len(s) \/ InClass(class, s[i]) THEN i ELSE FirstFrom(s, i + 1, class)

\* a test for the empty string in place of the trimmed one
IsBlankEmptyOnly(s) == Len(s) = 0

\* String.prototype.trim() = "": only white space
IsBlank(s) == \A i \in DOMAIN s : IsSpace(s[i])

\* parts.join(" ")
RECURSIVE Join(_)
Join(parts) ==
    IF Len(parts) = 0 THEN <<>>
    ELSE IF Len(parts) = 1 THEN parts[1]
    ELSE parts[1] \o <<" ">> \o Join(Tail(parts))

\* content.split(/\s+/): the pieces between maximal runs of white space
\* (a leading or trailing run leaves an empty piece)
RECURSIVE Split(_)
Split(s) ==
    LET i == FirstFrom(s, 1, "space")
    IN  IF i > Len(s) THEN <<s>>
        ELSE LET j == FirstFrom(s, i, "notspace")
             IN  <<SubSeq(s, 1, i - 1)>> \o Split(SubSeq(s, j, Len(s)))

-----------------------------------------------------------------------------
(* The patterns of the line parser                                         *)

Http == <<"h", "t", "t", "p", ":", "/", "/">>
Https == <<"h", "t", "t", "p", "s", ":", "/", "/">>

\* the alternatives of (png|jpg|jpeg|gif|webp|svg|bmp)
ImageExtNames ==
    { <<"p", "n", "g">>, <<"j", "p", "g">>, <<"j", "p", "e", "g">>,
      <<"g", "i", "f">>, <<"w", "e", "b", "p">>, <<"s", "v", "g">>,
      <<"b", "m", "p">> }

\* IMAGE_EXTENSIONS = /\.(png|jpg|jpeg|gif|webp|svg|bmp)$/i
IMAGE_EXTENSIONS(s) ==
    \E e \in ImageExtNames : EndsWith(LowerStr(s), <<".">> \o e)

\* the string after a leading http:// or https://, or NoScheme
NoScheme == <<"<no scheme>">>
AfterScheme(s) ==
    IF StartsWith(s, Http) THEN Slice(s, Len(Http))
    ELSE IF StartsWith(s, Https) THEN Slice(s, Len(Https))
    ELSE NoScheme

\* GYAZO_PATTERN = /^https?:\/\/(i\.)?gyazo\.com\//
GYAZO_PATTERN(s) ==
    LET r == AfterScheme(s)
        host == <<"g", "y", "a", "z", "o", ".", "c", "o", "m", "/">>
    IN  /\ r # NoScheme
        /\ \/ StartsWith(r, host)
           \/ StartsWith(r, <<"i", ".">> \o host)

\* the URL pattern without the character after the scheme
UrlAtSchemeOnly(s, i) == AfterScheme(Slice(s, i - 1)) # NoScheme

\* does /https?:\/\/[^\s\]]+/ match s at the 1-based position i
UrlAt(s, i) ==
    LET r == AfterScheme(Slice(s, i - 1))
    IN  r # NoScheme /\ Len(r) > 0 /\ ~InClass("spaceOrClose", r[1])

\* the first position where a URL starts, or 0
RECURSIVE FirstUrl(_, _)
FirstUrl(s, i) ==
    IF i > Len(s) THEN 0
    ELSE IF UrlAt(s, i) THEN i
    ELSE FirstUrl(s, i + 1)

\* the text /https?:\/\/[^\s\]]+/ matches at position i
UrlText(s, i) ==
    LET schemeLen == IF StartsWith(Slice(s, i - 1), Http) THEN Len(Http) ELSE Len(Https)
        j == FirstFrom(s, i + schemeLen, "spaceOrClose")
    IN  SubSeq(s, i, j - 1)

\* s.match(URL_PATTERN_GLOBAL) # null, URL_PATTERN_GLOBAL = /https?:\/\/[^\s\]]+/
URL_PATTERN_GLOBAL(s) == FirstUrl(s, 1) # 0

\* s.match(URL_PATTERN) # null, URL_PATTERN = /^https?:\/\/[^\s\]]+/
URL_PATTERN(s) == UrlAt(s, 1)

\* LOCAL_IMAGE_PATH =
\*   /^\.\.\/assets\/images\/[^\s\]]+\.(png|jpg|jpeg|gif|webp|svg|bmp)$/i
LOCAL_IMAGE_PATH(s) ==
    LET prefix == <<".", ".", "/", "a", "s", "s", "e", "t", "s", "/",
                    "i", "m", "a", "g", "e", "s", "/">>
        low == LowerStr(s)
        rest == Slice(low, Len(prefix))
    IN  /\ StartsWith(low, prefix)
        /\ \A i \in DOMAIN rest : ~InClass("spaceOrClose", rest[i])
        /\ \E e \in ImageExtNames :
              EndsWith(rest, <<".">> \o e) /\ Len(rest) > Len(e) + 1

\* measureIndent: the leading spaces and tabs, each counted as one
RECURSIVE LeadingIndent(_, _)
LeadingIndent(line, i) ==
    IF i <= Len(line) /\ line[i] \in {" ", "\t"}
    THEN LeadingIndent(line, i + 1)
    ELSE i - 1

measureIndent(line) ==
    LET n == LeadingIndent(line, 1)
    IN  [indent |-> n, content |-> Slice(line, n)]

\* parseQuote that takes any leading > for a quote
parseQuoteAnyGt(content) ==
    IF StartsWith(content, <<">">>)
    THEN LET afterGt == Slice(content, 1)
         IN  [isQuote |-> TRUE,
              quoteContent |-> IF StartsWith(afterGt, <<" ">>)
                               THEN Slice(afterGt, 1) ELSE afterGt]
    ELSE [isQuote |-> FALSE, quoteContent |-> content]

\* parseQuote: one leading > that is not followed by a second >
parseQuote(content) ==
    IF StartsWith(content, <<">">>) /\ ~StartsWith(content, <<">", ">">>)
    THEN LET afterGt == Slice(content, 1)
         IN  [isQuote |-> TRUE,
              quoteContent |-> IF StartsWith(afterGt, <<" ">>)
                               THEN Slice(afterGt, 1) ELSE afterGt]
    ELSE [isQuote |-> FALSE, quoteContent |-> content]

\* the characters after the last dot, whatever they are
RECURSIVE ExtStartLastDot(_, _)
ExtStartLastDot(filename, i) ==
    IF i < 1 THEN 0
    ELSE IF filename[i] = "." THEN (IF i < Len(filename) THEN i ELSE 0)
    ELSE ExtStartLastDot(filename, i - 1)

\* filename.match(/\.(\w+)$/): the word characters after the last dot
RECURSIVE ExtStart(_, _)
ExtStart(filename, i) ==
    IF i < 1 THEN 0
    ELSE IF filename[i] = "." THEN (IF i < Len(filename) THEN i ELSE 0)
    ELSE IF IsWord(filename[i]) THEN ExtStart(filename, i - 1)
    ELSE 0

\* isCodeBlockStart: content.match(/^code:([^\s]+)$/)
isCodeBlockStart(content) ==
    LET prefix == <<"c", "o", "d", "e", ":">>
        filename == Slice(content, Len(prefix))
        matches == /\ StartsWith(content, prefix)
                   /\ Len(filename) > 0
                   /\ \A i \in DOMAIN filename : ~IsSpace(filename[i])
        dot == IF matches THEN ExtStart(filename, Len(filename)) ELSE 0
    IN  [isCodeBlock |-> matches,
         lang |-> IF dot > 0 THEN Slice(filename, dot) ELSE <<>>]

-----------------------------------------------------------------------------
(* parseBracket and parseInlineContent                                     *)

NoMatch == <<"<no match>">>

\* a Text node whose text has lost the white space in front
TextNodeTrimmed(t) ==
    [type |-> "text", raw |-> t, text |-> Slice(t, FirstFrom(t, 1, "notspace") - 1)]

TextNode(t) == [type |-> "text", raw |-> t, text |-> t]

\* flushTextBuffer that drops a pending text of white space alone
flushTextBufferBlankDropped(nodes, textBuffer) ==
    IF \E i \in DOMAIN textBuffer : ~IsSpace(textBuffer[i])
    THEN Append(nodes, TextNode(textBuffer)) ELSE nodes

\* flushTextBuffer: the pending text becomes a Text node, unless it is empty
flushTextBuffer(nodes, textBuffer) ==
    IF Len(textBuffer) > 0 THEN Append(nodes, TextNode(textBuffer)) ELSE nodes

\* DecorationContent with the white space after the marker kept in group 2
DecorationContentWithSpace(content, m) ==
    LET k == FirstFrom(content, m + 1, "notspace")
    IN  IF k = m + 1 \/ Len(content) < m + 2 THEN NoMatch
        ELSE Slice(content, m)

\* group 2 of /^<marker>\s+(.+)$/ for a marker of m characters: what follows
\* the white space after the marker (the last white space character when
\* nothing follows a run of two or more), or NoMatch
DecorationContent(content, m) ==
    LET k == FirstFrom(content, m + 1, "notspace")
    IN  IF k = m + 1 THEN NoMatch
        ELSE IF k <= Len(content) THEN Slice(content, k - 1)
        ELSE IF k - (m + 1) >= 2 THEN <<content[Len(content)]>>
        ELSE NoMatch

RECURSIVE parseBracket(_), parseInlineContent(_), scanInline(_, _, _)

\* the URL branch of parseBracket (the content holds a URL at position u)
parseBracketUrl(content, u) ==
    LET raw == <<"[">> \o content \o <<"]">>
        url == UrlText(content, u)
        parts == Split(content)
        withUrl == SelectSeq(parts, LAMBDA q : URL_PATTERN_GLOBAL(q))
        titleParts == SelectSeq(parts, LAMBDA q : ~URL_PATTERN_GLOBAL(q))
    IN  IF GYAZO_PATTERN(url) \/ IMAGE_EXTENSIONS(url)
        THEN [type |-> "image", raw |-> raw, url |-> url]
        ELSE IF Len(parts) = 1
        THEN [type |-> "external-link", raw |-> raw, url |-> url, title |-> url]
        ELSE IF URL_PATTERN(parts[1])
        THEN [type |-> "external-link", raw |-> raw, url |-> parts[1],
              title |-> Join(Tail(parts))]
        ELSE [type |-> "external-link", raw |-> raw,
              url |-> IF Len(withUrl) > 0 THEN withUrl[1] ELSE <<>>,
              title |-> Join(titleParts)]

\* parseBracket: the node of a bracket [content]
parseBracket(content) ==
    LET raw == <<"[">> \o content \o <<"]">>
        \* /^\/([^\/]+)\/(.*)$/
        slash == IF StartsWith(content, <<"/">>)
                 THEN FirstFrom(content, 2, "slash") ELSE 0
        \* /^([^\s.]+)\.icon$/
        user == SubSeq(content, 1, Len(content) - 5)
        isIcon == /\ EndsWith(content, <<".", "i", "c", "o", "n">>)
                  /\ Len(user) > 0
                  /\ \A i \in DOMAIN user : ~IsSpace(user[i]) /\ user[i] # "."
        \* /^(\*+)\s+(.+)$/
        stars == FirstFrom(content, 1, "notstar") - 1
        boldContent == IF stars > 0 THEN DecorationContent(content, stars)
                       ELSE NoMatch
        \* /^\/\s+(.+)$/, /^-\s+(.+)$/, /^_\s+(.+)$/
        marked(c) == IF StartsWith(content, <<c>>)
                     THEN DecorationContent(content, 1) ELSE NoMatch
        u == FirstUrl(content, 1)
    IN  IF slash >= 3 /\ slash <= Len(content)
        THEN [type |-> "external-project-link", raw |-> raw,
              project |-> SubSeq(content, 2, slash - 1),
              page |-> Slice(content, slash)]
        ELSE IF isIcon
        THEN [type |-> "icon", raw |-> raw, user |-> user]
        ELSE IF StartsWith(content, <<"$", " ">>)
        THEN [type |-> "math", raw |-> raw, formula |-> Slice(content, 2)]
        ELSE IF boldContent # NoMatch
        THEN IF \/ GYAZO_PATTERN(boldContent)
                \/ IMAGE_EXTENSIONS(boldContent)
                \/ LOCAL_IMAGE_PATH(boldContent)
             THEN [type |-> "image", raw |-> raw, url |-> boldContent]
             ELSE [type |-> "bold", raw |-> raw, level |-> stars,
                   children |-> parseInlineContent(boldContent)]
        ELSE IF marked("/") # NoMatch
        THEN [type |-> "italic", raw |-> raw,
              children |-> parseInlineContent(marked("/"))]
        ELSE IF marked("-") # NoMatch
        THEN [type |-> "strikethrough", raw |-> raw,
              children |-> parseInlineContent(marked("-"))]
        ELSE IF marked("_") # NoMatch
        THEN [type |-> "underline", raw |-> raw,
              children |-> parseInlineContent(marked("_"))]
        ELSE IF LOCAL_IMAGE_PATH(content)
        THEN [type |-> "image", raw |-> raw, url |-> content]
        ELSE IF u # 0
        THEN parseBracketUrl(content, u)
        ELSE [type |-> "internal-link", raw |-> raw, title |-> content]

\* isValidPosition without the case of a node just before the #
isValidPositionNoNode(nodes, textBuffer) ==
    LET lastChar == IF Len(textBuffer) > 0 THEN textBuffer[Len(textBuffer)] ELSE ""
    IN  \/ Len(nodes) = 0 /\ Len(textBuffer) = 0
        \/ lastChar \in {" ", "\t", "<U+300D>", "<U+FF09>", "<U+3011>"}

\* is the # at the head of the remaining text at a position where a hashtag
\* is recognised (isValidPosition)
isValidPosition(nodes, textBuffer) ==
    LET lastChar == IF Len(textBuffer) > 0 THEN textBuffer[Len(textBuffer)] ELSE ""
    IN  \/ Len(nodes) = 0 /\ Len(textBuffer) = 0
        \/ lastChar = " "
        \/ lastChar = "\t"
        \/ lastChar = "<U+300D>"
        \/ lastChar = "<U+FF09>"
        \/ lastChar = "<U+3011>"
        \/ Len(textBuffer) = 0 /\ Len(nodes) > 0

\* the flush before a hashtag node with the trailing space or tab dropped
flushBeforeHashtagTrimmed(nodes, textBuffer) ==
    IF Len(textBuffer) > 0 /\ textBuffer[Len(textBuffer)] \in {" ", "\t"}
    THEN flushTextBuffer(nodes, SubSeq(textBuffer, 1, Len(textBuffer) - 1))
    ELSE flushTextBuffer(nodes, textBuffer)

\* the flush before a hashtag node: a trailing space or tab of the pending
\* text is flushed as a Text node of its own
flushBeforeHashtag(nodes, textBuffer) ==
    IF Len(textBuffer) > 0 /\ textBuffer[Len(textBuffer)] \in {" ", "\t"}
    THEN flushTextBuffer(
             flushTextBuffer(nodes, SubSeq(textBuffer, 1, Len(textBuffer) - 1)),
             <<textBuffer[Len(textBuffer)]>>)
    ELSE flushTextBuffer(nodes, textBuffer)

\* an iteration of the while loop that takes nothing from remaining when a
\* "#" is not made a hashtag
consumedNoFallThrough(remaining, nodes, textBuffer) ==
    LET \* /^\[\[([^\]]+)\]\]/
        dj == FirstFrom(remaining, 3, "close")
        doubleBracketMatch ==
            /\ StartsWith(remaining, <<"[", "[">>)
            /\ dj >= 4 /\ dj + 1 <= Len(remaining) /\ remaining[dj + 1] = "]"
        \* /^\[([^\]]+)\]/
        bj == FirstFrom(remaining, 2, "close")
        bracketMatch == remaining[1] = "[" /\ bj >= 3 /\ bj <= Len(remaining)
        \* /^`([^`]+)`/
        cj == FirstFrom(remaining, 2, "tick")
        codeMatch == remaining[1] = "<U+0060>" /\ cj >= 3 /\ cj <= Len(remaining)
        \* /^#([^\s\[\]#]+)/
        tj == FirstFrom(remaining, 2, "tagEnd")
        tagMatch == /\ remaining[1] = "#"
                    /\ isValidPosition(nodes, textBuffer)
                    /\ tj >= 3
    IN  IF doubleBracketMatch THEN dj + 1
        ELSE IF bracketMatch THEN bj
        ELSE IF codeMatch THEN cj
        ELSE IF tagMatch THEN tj - 1
        ELSE IF remaining[1] = "#" THEN 0
        ELSE 1

\* the number of characters an iteration of the while loop of
\* parseInlineContent takes from the front of a non-empty remaining: the
\* length of the match, or one character
consumed(remaining, nodes, textBuffer) ==
    LET \* /^\[\[([^\]]+)\]\]/
        dj == FirstFrom(remaining, 3, "close")
        doubleBracketMatch ==
            /\ StartsWith(remaining, <<"[", "[">>)
            /\ dj >= 4 /\ dj + 1 <= Len(remaining) /\ remaining[dj + 1] = "]"
        \* /^\[([^\]]+)\]/
        bj == FirstFrom(remaining, 2, "close")
        bracketMatch == remaining[1] = "[" /\ bj >= 3 /\ bj <= Len(remaining)
        \* /^`([^`]+)`/
        cj == FirstFrom(remaining, 2, "tick")
        codeMatch == remaining[1] = "<U+0060>" /\ cj >= 3 /\ cj <= Len(remaining)
        \* /^#([^\s\[\]#]+)/
        tj == FirstFrom(remaining, 2, "tagEnd")
        tagMatch == /\ remaining[1] = "#"
                    /\ isValidPosition(nodes, textBuffer)
                    /\ tj >= 3
    IN  IF doubleBracketMatch THEN dj + 1
        ELSE IF bracketMatch THEN bj
        ELSE IF codeMatch THEN cj
        ELSE IF tagMatch THEN tj - 1
        ELSE 1

\* the while loop of parseInlineContent
scanInline(remaining, nodes, textBuffer) ==
    IF Len(remaining) = 0 THEN flushTextBuffer(nodes, textBuffer)
    ELSE
    LET \* /^\[\[([^\]]+)\]\]/
        dj == FirstFrom(remaining, 3, "close")
        doubleBracketMatch ==
            /\ StartsWith(remaining, <<"[", "[">>)
            /\ dj >= 4 /\ dj + 1 <= Len(remaining) /\ remaining[dj + 1] = "]"
        \* /^\[([^\]]+)\]/
        bj == FirstFrom(remaining, 2, "close")
        bracketMatch == remaining[1] = "[" /\ bj >= 3 /\ bj <= Len(remaining)
        \* /^`([^`]+)`/
        cj == FirstFrom(remaining, 2, "tick")
        codeMatch == remaining[1] = "<U+0060>" /\ cj >= 3 /\ cj <= Len(remaining)
        \* /^#([^\s\[\]#]+)/
        tj == FirstFrom(remaining, 2, "tagEnd")
        tagMatch == /\ remaining[1] = "#"
                    /\ isValidPosition(nodes, textBuffer)
                    /\ tj >= 3
        \* remaining.slice(match[0].length), remaining.slice(1)
        rest == Slice(remaining, consumed(remaining, nodes, textBuffer))
    IN  IF doubleBracketMatch
        THEN scanInline(rest,
                 Append(flushTextBuffer(nodes, textBuffer),
                        [type |-> "bold", raw |-> SubSeq(remaining, 1, dj + 1),
                         level |-> 1,
                         children |-> parseInlineContent(SubSeq(remaining, 3, dj - 1))]),
                 <<>>)
        ELSE IF bracketMatch
        THEN scanInline(rest,
                 Append(flushTextBuffer(nodes, textBuffer),
                        parseBracket(SubSeq(remaining, 2, bj - 1))),
                 <<>>)
        ELSE IF codeMatch
        THEN scanInline(rest,
                 Append(flushTextBuffer(nodes, textBuffer),
                        [type |-> "code", raw |-> SubSeq(remaining, 1, cj),
                         code |-> SubSeq(remaining, 2, cj - 1)]),
                 <<>>)
        ELSE IF tagMatch
        THEN scanInline(rest,
                 Append(flushBeforeHashtag(nodes, textBuffer),
                        [type |-> "hashtag", raw |-> SubSeq(remaining, 1, tj - 1),
                         tag |-> SubSeq(remaining, 2, tj - 1)]),
                 <<>>)
        ELSE scanInline(rest, nodes, Append(textBuffer, remaining[1]))

\* parseInlineContent: the nodes of a text
parseInlineContent(text) == scanInline(text, <<>>, <<>>)

\* parseLine that takes a line of a code block for content from indent 2 on
parseLineDeeperContent(line, inCodeBlock) ==
    LET m == measureIndent(line)
        codeBlockInfo == isCodeBlockStart(m.content)
        quoteInfo == parseQuote(m.content)
    IN  IF inCodeBlock /\ m.indent > 1
        THEN [indent |-> m.indent, nodes |-> <<TextNode(m.content)>>,
              isCodeBlock |-> FALSE,
              isCodeBlockContent |-> TRUE, isQuote |-> FALSE]
        ELSE IF codeBlockInfo.isCodeBlock
        THEN [indent |-> m.indent, nodes |-> <<TextNode(m.content)>>,
              isCodeBlock |-> TRUE, codeBlockLang |-> codeBlockInfo.lang,
              isCodeBlockContent |-> FALSE, isQuote |-> FALSE]
        ELSE IF quoteInfo.isQuote
        THEN [indent |-> m.indent,
              nodes |-> IF Len(quoteInfo.quoteContent) > 0
                        THEN parseInlineContent(quoteInfo.quoteContent)
                        ELSE <<>>,
              isCodeBlock |-> FALSE,
              isCodeBlockContent |-> FALSE, isQuote |-> TRUE]
        ELSE [indent |-> m.indent, nodes |-> parseInlineContent(m.content),
              isCodeBlock |-> FALSE,
              isCodeBlockContent |-> FALSE, isQuote |-> FALSE]

\* parseLine: one line, given whether it follows an open code block
parseLine(line, inCodeBlock) ==
    LET m == measureIndent(line)
        codeBlockInfo == isCodeBlockStart(m.content)
        quoteInfo == parseQuote(m.content)
    IN  IF inCodeBlock /\ m.indent > 0
        THEN [indent |-> m.indent, nodes |-> <<TextNode(m.content)>>,
              isCodeBlock |-> FALSE,
              isCodeBlockContent |-> TRUE, isQuote |-> FALSE]
        ELSE IF codeBlockInfo.isCodeBlock
        THEN [indent |-> m.indent, nodes |-> <<TextNode(m.content)>>,
              isCodeBlock |-> TRUE, codeBlockLang |-> codeBlockInfo.lang,
              isCodeBlockContent |-> FALSE, isQuote |-> FALSE]
        ELSE IF quoteInfo.isQuote
        THEN [indent |-> m.indent,
              nodes |-> IF Len(quoteInfo.quoteContent) > 0
                        THEN parseInlineContent(quoteInfo.quoteContent)
                        ELSE <<>>,
              isCodeBlock |-> FALSE,
              isCodeBlockContent |-> FALSE, isQuote |-> TRUE]
        ELSE [indent |-> m.indent, nodes |-> parseInlineContent(m.content),
              isCodeBlock |-> FALSE,
              isCodeBlockContent |-> FALSE, isQuote |-> FALSE]

\* the loop of parseLines over lines i.., with the code-block state threaded
RECURSIVE parseLinesFrom(_, _, _, _)
parseLinesFrom(lines, i, inCodeBlock, codeBlockIndent) ==
    IF i > Len(lines) THEN <<>>
    ELSE LET indent == measureIndent(lines[i]).indent
             open == IF inCodeBlock /\ indent <= codeBlockIndent /\ ~IsBlank(lines[i])
                     THEN FALSE ELSE inCodeBlock
             parsed == parseLine(lines[i], open)
         IN  <<parsed>> \o
             parseLinesFrom(lines, i + 1,
                            IF parsed.isCodeBlock THEN TRUE ELSE open,
                            IF parsed.isCodeBlock THEN indent ELSE codeBlockIndent)

\* parseLines: every line of a page
parseLines(lines) == parseLinesFrom(lines, 1, FALSE, 0)

-----------------------------------------------------------------------------
(* The link graph (src/analyzer/link-analyzer.ts)                          *)
(*                                                                         *)
(* A JavaScript Set is the sequence of its members in insertion order, a   *)
(* Map a function on its keys; the Map extractLinks returns, which         *)
(* buildLinkGraph iterates in insertion order, is a sequence of entries.   *)

\* Set.prototype.add
SetAdd(set, x) == IF x \in Range(set) THEN set ELSE Append(set, x)

\* Map.prototype.set
MapSet(map, k, v) == [x \in DOMAIN map \cup {k} |-> IF x = k THEN v ELSE map[x]]

\* new Map()
EmptyMap == [x \in {} |-> <<>>]

\* map.get(k) || []
GetOrEmpty(map, k) == IF k \in DOMAIN map THEN map[k] ELSE <<>>

\* linkTarget with the raw text of a hashtag taken for its tag
linkTargetRawTag(node) ==
    IF node.type = "internal-link" THEN node.title
    ELSE IF node.type = "hashtag" THEN node.raw
    ELSE <<>>

\* the link target of a node of a line, or <<>> (null)
linkTarget(node) ==
    IF node.type = "internal-link" THEN node.title
    ELSE IF node.type = "hashtag" THEN node.tag
    ELSE <<>>

\* links.get(target).push(originalLine), after links.set(target, []) for a
\* target seen for the first time
RECURSIVE pushLink(_, _, _)
pushLink(links, target, originalLine) ==
    IF Len(links) = 0
    THEN <<[target |-> target, contexts |-> <<originalLine>>]>>
    ELSE IF links[1].target = target
    THEN <<[target |-> target, contexts |-> Append(links[1].contexts, originalLine)]>>
         \o Tail(links)
    ELSE <<links[1]>> \o pushLink(Tail(links), target, originalLine)

\* the inner loop of extractLinks: the nodes of one parsed line
RECURSIVE extractLineLinks(_, _, _)
extractLineLinks(links, nodes, originalLine) ==
    IF Len(nodes) = 0 THEN links
    ELSE LET target == linkTarget(nodes[1])
         IN  extractLineLinks(
                 IF Len(target) > 0 THEN pushLink(links, target, originalLine)
                 ELSE links,
                 Tail(nodes), originalLine)

\* the outer loop of extractLinks: lines i.. of the page
RECURSIVE extractFrom(_, _, _, _)
extractFrom(links, parsedLines, lines, i) ==
    IF i > Len(parsedLines) THEN links
    ELSE extractFrom(extractLineLinks(links, parsedLines[i].nodes, lines[i]),
                     parsedLines, lines, i + 1)

\* extractLinks: the link targets of a page with the lines that name them
extractLinks(page) == extractFrom(<<>>, parseLines(page.lines), page.lines, 1)

NoGraph == [forwardLinks |-> EmptyMap, backLinks |-> EmptyMap,
            linkContexts |-> EmptyMap, existingPages |-> <<>>]

\* seedPages with the back-link entry left to the first link that needs it
RECURSIVE seedPagesLazyBack(_, _)
seedPagesLazyBack(g, ps) ==
    IF Len(ps) = 0 THEN g
    ELSE seedPagesLazyBack(
             [forwardLinks |-> MapSet(g.forwardLinks, ps[1].title, <<>>),
              backLinks |-> g.backLinks,
              linkContexts |-> MapSet(g.linkContexts, ps[1].title, EmptyMap),
              existingPages |-> SetAdd(g.existingPages, ps[1].title)],
             Tail(ps))

\* the first loop of buildLinkGraph: every page is registered
RECURSIVE seedPages(_, _)
seedPages(g, ps) ==
    IF Len(ps) = 0 THEN g
    ELSE seedPages(
             [forwardLinks |-> MapSet(g.forwardLinks, ps[1].title, <<>>),
              backLinks |-> MapSet(g.backLinks, ps[1].title, <<>>),
              linkContexts |-> MapSet(g.linkContexts, ps[1].title, EmptyMap),
              existingPages |-> SetAdd(g.existingPages, ps[1].title)],
             Tail(ps))

\* addLink with the back link recorded for existing pages only
addLinkExistingOnly(g, title, entry) ==
    LET target == entry.target
        pageContexts == g.linkContexts[title]
    IN  [forwardLinks |-> MapSet(g.forwardLinks, title,
                                 SetAdd(g.forwardLinks[title], target)),
         backLinks |-> IF target \in Range(g.existingPages)
                       THEN MapSet(g.backLinks, target,
                                   SetAdd(GetOrEmpty(g.backLinks, target), title))
                       ELSE g.backLinks,
         linkContexts |-> MapSet(g.linkContexts, title,
                                 MapSet(pageContexts, target,
                                        GetOrEmpty(pageContexts, target)
                                            \o entry.contexts)),
         existingPages |-> g.existingPages]

\* the body of the second loop for one entry of pageLinks
addLink(g, title, entry) ==
    LET target == entry.target
        pageContexts == g.linkContexts[title]
    IN  [forwardLinks |-> MapSet(g.forwardLinks, title,
                                 SetAdd(g.forwardLinks[title], target)),
         backLinks |-> MapSet(g.backLinks, target,
                              SetAdd(GetOrEmpty(g.backLinks, target), title)),
         linkContexts |-> MapSet(g.linkContexts, title,
                                 MapSet(pageContexts, target,
                                        GetOrEmpty(pageContexts, target)
                                            \o entry.contexts)),
         existingPages |-> g.existingPages]

RECURSIVE addPageLinks(_, _, _)
addPageLinks(g, title, pageLinks) ==
    IF Len(pageLinks) = 0 THEN g
    ELSE addPageLinks(addLink(g, title, pageLinks[1]), title, Tail(pageLinks))

\* the second loop of buildLinkGraph: the links of every page
RECURSIVE linkPages(_, _)
linkPages(g, ps) ==
    IF Len(ps) = 0 THEN g
    ELSE linkPages(addPageLinks(g, ps[1].title, extractLinks(ps[1])), Tail(ps))

\* buildLinkGraph with its four collections kept from the last build
buildLinkGraphKept(ps) == linkPages(seedPages(graph, ps), ps)

\* buildLinkGraph: the graph of a page list, from four fresh collections
buildLinkGraph(ps) == linkPages(seedPages(NoGraph, ps), ps)

\* get1HopLinks
get1HopLinks(g, pageTitle) ==
    [outgoing |-> GetOrEmpty(g.forwardLinks, pageTitle),
     incoming |-> GetOrEmpty(g.backLinks, pageTitle)]

\* addUnlessOneHop with an array push in place of the Set
RECURSIVE addUnlessOneHopPush(_, _, _)
addUnlessOneHopPush(twoHopSet, members, oneHopSet) ==
    IF Len(members) = 0 THEN twoHopSet
    ELSE addUnlessOneHopPush(
             IF members[1] \in oneHopSet THEN twoHopSet
             ELSE Append(twoHopSet, members[1]),
             Tail(members), oneHopSet)

\* for (const x of members) if (!oneHopSet.has(x)) twoHopSet.add(x)
RECURSIVE addUnlessOneHop(_, _, _)
addUnlessOneHop(twoHopSet, members, oneHopSet) ==
    IF Len(members) = 0 THEN twoHopSet
    ELSE addUnlessOneHop(
             IF members[1] \in oneHopSet THEN twoHopSet
             ELSE SetAdd(twoHopSet, members[1]),
             Tail(members), oneHopSet)

\* either loop of get2HopLinks over the one-hop pages: the forward links of
\* each, then its back links
RECURSIVE viaOneHop(_, _, _, _)
viaOneHop(g, twoHopSet, oneHopPages, oneHopSet) ==
    IF Len(oneHopPages) = 0 THEN twoHopSet
    ELSE viaOneHop(g,
             addUnlessOneHop(
                 addUnlessOneHop(twoHopSet,
                                 GetOrEmpty(g.forwardLinks, oneHopPages[1]),
                                 oneHopSet),
                 GetOrEmpty(g.backLinks, oneHopPages[1]), oneHopSet),
             Tail(oneHopPages), oneHopSet)

\* get2HopLinks without the loop over the incoming pages
get2HopLinksForwardOnly(g, pageTitle) ==
    LET oneHop == get1HopLinks(g, pageTitle)
        oneHopSet == Range(oneHop.outgoing) \cup Range(oneHop.incoming)
                         \cup {pageTitle}
    IN  viaOneHop(g, <<>>, oneHop.outgoing, oneHopSet)

\* get2HopLinks with the incoming pages left out of oneHopSet
get2HopLinksIncomingKept(g, pageTitle) ==
    LET oneHop == get1HopLinks(g, pageTitle)
        oneHopSet == Range(oneHop.outgoing) \cup {pageTitle}
    IN  viaOneHop(g, viaOneHop(g, <<>>, oneHop.outgoing, oneHopSet),
                  oneHop.incoming, oneHopSet)

\* get2HopLinks
get2HopLinks(g, pageTitle) ==
    LET oneHop == get1HopLinks(g, pageTitle)
        oneHopSet == Range(oneHop.outgoing) \cup Range(oneHop.incoming)
                         \cup {pageTitle}
    IN  viaOneHop(g, viaOneHop(g, <<>>, oneHop.outgoing, oneHopSet),
                  oneHop.incoming, oneHopSet)

\* getBackLinks
getBackLinks(g, pageTitle) == GetOrEmpty(g.backLinks, pageTitle)

\* getLinkContext
getLinkContext(g, fromPage, toPage) ==
    IF fromPage \in DOMAIN g.linkContexts
    THEN GetOrEmpty(g.linkContexts[fromPage], toPage)
    ELSE <<>>

-----------------------------------------------------------------------------
(* Inputs                                                                  *)

MaxPages == 3     \* pages of a generated page list
MaxLines == 2     \* lines of a generated page of the editing specification
MaxBuilds == 3    \* buildLinkGraph calls in one behaviour

A == <<"A">>
B == <<"B">>
C == <<"C">>
D == <<"D">>

Link(t) == <<"[">> \o t \o <<"]">>
Tag(t) == <<"#">> \o t

Page(title, lines) == [title |-> title, lines |-> lines]

\* sequences of 0..n members of S
SeqsUpTo(S, n) == UNION {[1..k -> S] : k \in 0..n}

\* the lines of a generated page of the graph specification
GraphLineLists ==
    { <<>>,
      <<Link(B)>>,
      <<Tag(C)>>,
      <<Link(A)>>,
      <<Tag(D)>>,
      <<Link(B) \o <<" ">> \o Tag(C)>>,
      <<<<"[", "*", " ", "#", "D", "]">>>> }

GraphPages == {Page(t, ls) : t \in {A, B, C}, ls \in GraphLineLists}

\* createPage of the tests: the title is the first line
createPage(title, lines) == Page(title, <<title>> \o lines)

\* "2ホップ先のページを取得できる": A -> B -> C -> D
ChainPages == <<createPage(A, <<Link(B)>>), createPage(B, <<Link(C)>>),
                createPage(C, <<Link(D)>>), createPage(D, <<>>)>>

\* the 3-cycle A -> B -> C -> A
CyclePages == <<createPage(A, <<Link(B)>>), createPage(B, <<Link(C)>>),
                createPage(C, <<Link(A)>>)>>

\* page lists with links and hashtags inside and after code blocks
CodeBlockPages ==
    LET start == <<"c", "o", "d", "e", ":", "a">>
    IN  { <<Page(A, <<start, <<" ">> \o Link(B), <<>>, <<"\t">> \o Tag(C), Link(D)>>),
            Page(B, <<>>)>>,
          <<Page(A, <<<<" ">> \o start, <<" ", " ">> \o Link(B) \o <<" ">> \o Tag(C),
                      <<" ">> \o Link(C)>>)>>,
          <<Page(A, <<start, <<" ", ">", " ">> \o Link(B), Tag(C)>>),
            Page(C, <<start, <<" ", "[", "*", " ">> \o Link(A) \o <<"]">>>>)>> }

GraphInputs ==
    SeqsUpTo(GraphPages, MaxPages) \cup {ChainPages, CyclePages}
        \cup CodeBlockPages

\* the titles the queries are made for: the pages, the dangling D
QueryTitles == {A, B, C, D}

\* the lines of a generated page of the editing specification: links and
\* hashtags at the top level, inside decorations, after text and in an
\* indented quote
EditLines ==
    { Link(B),
      Tag(B),
      <<"[", "*", " ", "#", "B", "]">>,
      <<"[", "[", "#", "C", "]", "]">>,
      <<"x", " ", "#", "B", "[", "C", "]">>,
      Link(B) \o <<" ">> \o Link(B),
      <<" ", ">", "#", "C">> }

\* the pages that may follow the generated page: none or a page B
SecondPages == { <<>>, <<Page(B, <<Link(B)>>)>> }

EditInputs ==
    { <<Page(A, ls)>> \o second :
          ls \in SeqsUpTo(EditLines, MaxLines), second \in SecondPages }

\* the page lists the caller may turn to between two builds
LoadInputs ==
    { <<Page(A, <<Link(B)>>)>>,
      <<Page(A, <<>>), Page(B, <<Link(B)>>)>> }

-----------------------------------------------------------------------------
(* The operations                                                          *)

NoResult == [op |-> "none"]
NoEdit == [kind |-> "none"]

\* the caller builds the graph of its page list
Build ==
    /\ Len(history) < MaxBuilds
    /\ graph' = buildLinkGraph(pages)
    /\ history' = Append(history, [pages |-> pages, graph |-> graph', edit |-> edit])
    /\ edit' = NoEdit
    /\ result' = NoResult
    /\ UNCHANGED <<pages, parserVars, ioVars>>

\* get1HopLinks that makes an empty entry for a title the graph does not hold
Get1HopCreating(t) ==
    /\ Len(history) > 0
    /\ result' = [op |-> "get1HopLinks", title |-> t, value |-> get1HopLinks(graph, t)]
    /\ graph' = [graph EXCEPT
                     !.forwardLinks = MapSet(graph.forwardLinks, t,
                                             GetOrEmpty(graph.forwardLinks, t)),
                     !.backLinks = MapSet(graph.backLinks, t,
                                          GetOrEmpty(graph.backLinks, t))]
    /\ UNCHANGED <<pages, history, edit, parserVars, ioVars>>

Get1Hop(t) ==
    /\ Len(history) > 0
    /\ result' = [op |-> "get1HopLinks", title |-> t, value |-> get1HopLinks(graph, t)]
    /\ UNCHANGED <<pages, graph, history, edit, parserVars, ioVars>>

Get2Hop(t) ==
    /\ Len(history) > 0
    /\ result' = [op |-> "get2HopLinks", title |-> t, value |-> get2HopLinks(graph, t)]
    /\ UNCHANGED <<pages, graph, history, edit, parserVars, ioVars>>

GetBackLinks(t) ==
    /\ Len(history) > 0
    /\ result' = [op |-> "getBackLinks", title |-> t, value |-> getBackLinks(graph, t)]
    /\ UNCHANGED <<pages, graph, history, edit, parserVars, ioVars>>

\* no parseLines call is made; no file is written, no upload and no
\* worker pool is started
ParserIdle ==
    /\ input = <<>>
    /\ results = <<>>
    /\ blockOpen = FALSE
    /\ blockIndent = 0

NoCall == [kind |-> "none"]
NoUpload == [pc |-> "none"]

OutputIdle == files = EmptyMap /\ written = 0

UploadIdle == upload = NoUpload /\ requests = <<>>

PoolIdle ==
    /\ call = NoCall
    /\ queue = <<>>
    /\ workers = <<>>
    /\ poolResults = <<>>
    /\ completed = 0
    /\ progress = <<>>
    /\ taken = <<>>
    /\ returned = FALSE

IoIdle == OutputIdle /\ UploadIdle /\ PoolIdle

Init ==
    /\ pages \in GraphInputs
    /\ graph = NoGraph
    /\ history = <<>>
    /\ edit = NoEdit
    /\ result = NoResult
    /\ ParserIdle
    /\ IoIdle

\* one build of the page list, then one query on the graph
Next ==
    \/ Len(history) = 0 /\ Build
    \/ result = NoResult /\ \E t \in QueryTitles : Get2Hop(t)

Spec == Init /\ [][Next]_vars

\* the caller turns to another page list
Load(ps) ==
    /\ Len(history) > 0
    /\ Len(history) < MaxBuilds
    /\ edit = NoEdit
    /\ ps # pages
    /\ pages' = ps
    /\ edit' = [kind |-> "load"]
    /\ result' = NoResult
    /\ UNCHANGED <<graph, history, parserVars, ioVars>>

\* the characters of a line before its inline content: the indent and, for
\* a quote, the > and the space after it
InlineOffset(line) ==
    LET m == measureIndent(line)
        q == parseQuote(m.content)
    IN  IF q.isQuote THEN Len(line) - Len(q.quoteContent) ELSE m.indent

RECURSIVE RawLength(_)
RawLength(nodes) ==
    IF Len(nodes) = 0 THEN 0 ELSE Len(nodes[1].raw) + RawLength(Tail(nodes))

\* the text a hashtag or link node names
NodeText(node) == IF node.type = "hashtag" THEN node.tag ELSE node.title

\* the hashtag and link nodes of the whole node tree of a line, children of
\* decorations included, from left to right, each with the position in the
\* line where it starts; start is the position of the first of the nodes
RECURSIVE TreeLinks(_, _)
TreeLinks(nodes, start) ==
    IF Len(nodes) = 0 THEN <<>>
    ELSE LET node == nodes[1]
             closing == IF StartsWith(node.raw, <<"[", "[">>) THEN 2 ELSE 1
             here == IF node.type \in {"hashtag", "internal-link"}
                     THEN <<[type |-> node.type, target |-> NodeText(node),
                             at |-> start]>>
                     ELSE IF "children" \in DOMAIN node
                     THEN TreeLinks(node.children,
                                    start + Len(node.raw)
                                        - RawLength(node.children) - closing)
                     ELSE <<>>
         IN  here \o TreeLinks(Tail(nodes), start + Len(node.raw))

\* the hashtags and links of line j of the lines
LineLinks(lines, j) ==
    LET parsed == parseLines(lines)[j]
    IN  TreeLinks(parsed.nodes, InlineOffset(lines[j]) + 1)

\* the parser recognises, at position k of line j, a node of the type
\* that names t
RecognisedAt(lines, j, k, type, t) ==
    [type |-> type, target |-> t, at |-> k] \in Range(LineLinks(lines, j))

\* the written form of a link of the type to t
Written(type, t) == IF type = "hashtag" THEN Tag(t) ELSE Link(t)

OtherType(type) == IF type = "hashtag" THEN "internal-link" ELSE "hashtag"

\* the caller replaces, in line j of page i, the hashtag #t at position k by
\* the link [t], or the link by the hashtag, where the parser recognises
\* the one before and the other after the change
ReplaceLink(i, j, k, type, t) ==
    LET lines == pages[i].lines
        line == lines[j]
        newLine == SubSeq(line, 1, k - 1) \o Written(OtherType(type), t)
                       \o Slice(line, k - 1 + Len(Written(type, t)))
        newLines == [lines EXCEPT ![j] = newLine]
    IN  /\ Len(history) > 0
        /\ Len(history) < MaxBuilds
        /\ edit = NoEdit
        /\ k - 1 + Len(Written(type, t)) <= Len(line)
        /\ SubSeq(line, k, k - 1 + Len(Written(type, t))) = Written(type, t)
        /\ RecognisedAt(lines, j, k, type, t)
        /\ RecognisedAt(newLines, j, k, OtherType(type), t)
        /\ pages' = [pages EXCEPT ![i].lines = newLines]
        /\ edit' = [kind |-> "replace", page |-> i, line |-> j, at |-> k,
                    from |-> type, target |-> t]
        /\ result' = NoResult
        /\ UNCHANGED <<graph, history, parserVars, ioVars>>

InitEdit ==
    /\ pages \in EditInputs
    /\ graph = NoGraph
    /\ history = <<>>
    /\ edit = NoEdit
    /\ result = NoResult
    /\ ParserIdle
    /\ IoIdle

\* builds of the page list, with a change of the list between two builds
NextEdit ==
    \/ Build
    \/ \E ps \in LoadInputs : Load(ps)
    \/ \E i \in DOMAIN pages : \E j \in DOMAIN pages[i].lines :
          \E k \in DOMAIN pages[i].lines[j] :
              \E type \in {"hashtag", "internal-link"} : \E t \in {A, B, C} :
                  ReplaceLink(i, j, k, type, t)

SpecEdit == InitEdit /\ [][NextEdit]_vars

-----------------------------------------------------------------------------
(* The query specification: any queries on a graph built once              *)

GetLinkContext(from, to) ==
    /\ Len(history) > 0
    /\ result' = [op |-> "getLinkContext", title |-> from, to |-> to,
                  value |-> getLinkContext(graph, from, to)]
    /\ UNCHANGED <<pages, graph, history, edit, parserVars, ioVars>>

QueryInputs ==
    SeqsUpTo(GraphPages, MaxPages - 1) \cup {ChainPages, CyclePages}
        \cup CodeBlockPages

InitQuery ==
    /\ pages \in QueryInputs
    /\ graph = NoGraph
    /\ history = <<>>
    /\ edit = NoEdit
    /\ result = NoResult
    /\ ParserIdle
    /\ IoIdle

\* one build of the page list, then queries in any number and order
NextQuery ==
    \/ Len(history) = 0 /\ Build
    \/ \E t \in QueryTitles : Get1Hop(t)
    \/ \E t \in QueryTitles : Get2Hop(t)
    \/ \E t \in QueryTitles : GetBackLinks(t)
    \/ \E from \in QueryTitles : \E to \in QueryTitles : GetLinkContext(from, to)

SpecQuery == InitQuery /\ [][NextQuery]_vars

-----------------------------------------------------------------------------
(* The parser specification: parseLines over generated lines               *)

MaxLen == 4       \* characters of a generated line
MaxBlock == 4     \* lines of a generated code-block list

\* the characters of the generated lines
Chars == {"[", "]", "#", " ", "\t", ">", "a", "<U+0060>", "<U+FF09>", ")"}

CoreLines == SeqsUpTo(Chars, MaxLen)

Gyazo == Https \o <<"g", "y", "a", "z", "o", ".", "c", "o", "m", "/">>
Site == Https \o <<"a", ".", "b">>
Png == <<".", "p", "n", "g">>
Assets == <<".", ".", "/", "a", "s", "s", "e", "t", "s", "/",
            "i", "m", "a", "g", "e", "s", "/">>
CodeColon == <<"c", "o", "d", "e", ":">>

\* what may stand before a hashtag
TagPrefixes ==
    { <<>>, <<"a">>, <<"a", " ">>, <<"a", "\t">>, <<"a", "<U+3000>">>,
      <<"a", "<U+300D>">>, <<"a", "<U+FF09>">>, <<"a", "<U+3011>">>,
      <<"a", ")">>, <<"[", "l", "i", "n", "k", "]">>,
      <<"[", "[", "a", "]", "]">>, <<"<U+0060>", "a", "<U+0060>">>,
      <<"#", "a">>, <<"[", "a", "]", " ">>, <<"[", "a", "]", "a">> }

TagLines ==
    { prefix \o <<"#">> \o tag \o suffix :
          prefix \in TagPrefixes,
          tag \in {<<>>, <<"b">>, <<"t", "a", "g">>},
          suffix \in {<<>>, <<" ", "c">>, <<"#", "c">>, <<"[", "c", "]">>} }

\* what may follow the marker and the white space of a decoration
Remainders ==
    { <<"a">>, <<" ">>, <<"#", "a">>, <<"a", " ", "#", "b">>,
      Gyazo \o <<"a", "b", "c">>,
      Http \o <<"i", ".">> \o Slice(Gyazo, Len(Https)) \o <<"a">>,
      <<"x">> \o Gyazo \o <<"a">>,
      Https \o <<"g", "y", "a", "z", "o", ".", "c", "o", "m">>,
      <<"a">> \o Png, <<"a", ".", "P", "N", "G">>, <<"a">> \o Png \o <<"x">>,
      Assets \o <<"a">> \o Png, Site, Site \o <<"/", "c", ".", "j", "p", "g">> }

Markers == {<<"*">>, <<"*", "*">>, <<"*", "*", "*">>, <<"/">>, <<"-">>, <<"_">>}

Gaps == {<<>>, <<" ">>, <<" ", " ">>, <<"\t">>, <<"<U+3000>">>}

Decorations == {m \o g \o r : m \in Markers, g \in Gaps, r \in Remainders \cup {<<>>}}

\* bracket interiors with a URL: alone, before and after a title, with white
\* space at an end, two of them, and with text in front of the scheme
UrlInteriors ==
    LET t == <<"t">>
        u == <<"u">>
        sp == <<" ">>
    IN  { Site, Site \o sp \o t, t \o sp \o Site, Site \o sp, sp \o Site,
          Site \o sp \o t \o sp \o u, t \o sp \o Site \o sp \o u,
          t \o sp \o u \o sp \o Site, Site \o <<" ", " ">> \o t,
          Site \o <<"\t">> \o t, t \o <<"<U+3000>">> \o Site,
          <<"x">> \o Site \o sp \o t, t \o sp \o <<"x">> \o Site,
          Site \o sp \o Site \o <<"/", "c">>, <<"x">> \o Site \o sp \o Site,
          Gyazo \o <<"a">> \o sp \o t, t \o sp \o Site \o Png,
          Http \o <<"a">>, Http, Https \o sp \o t }

\* bracket interiors of the other forms
PlainInteriors ==
    { <<"a">>, <<"a", " ", "b">>, <<" ", "a", " ">>, <<"A">>, <<"#", "a">>,
      <<"/", "p", "/", "q">>, <<"/", "p", "/">>, <<"/", "p">>, <<"/", "/">>,
      <<"/", " ", "a", "/", "b">>,
      <<"a", ".", "i", "c", "o", "n">>, <<".", "i", "c", "o", "n">>,
      <<"a", " ", "b", ".", "i", "c", "o", "n">>,
      <<"a", ".", "b", ".", "i", "c", "o", "n">>,
      <<"$", " ", "x">>, <<"$", "x">>, <<"$", " ">>,
      <<"*", "a">>, <<"*">>, <<"-">>, <<"_", "a">>, <<"a", " ", "*">>,
      Assets \o <<"a">> \o Png, Assets \o Png, Assets \o <<"a">>,
      <<"a">> \o Png }

\* interiors over the characters of the generated lines
CoreInteriors == SeqsUpTo(Chars \ {"]"}, MaxLen - 1)

Interiors == Decorations \cup UrlInteriors \cup PlainInteriors \cup CoreInteriors

BracketLines == {<<"[">> \o c \o <<"]">> : c \in Interiors}

DoubleBracketLines ==
    {<<"[", "[">> \o x \o <<"]", "]">> : x \in CoreInteriors \cup PlainInteriors}

\* lines of the parser tests
ExampleLines ==
    { <<">", ">", "x">>, <<">", " ", "x", " ", "#", "b">>,
      <<" ", ">", " ", " ", "x">>,
      <<"<U+0060>", "[", "a", "]", " ", "#", "b", "<U+0060>">>,
      <<"[", "$", " ", "#", "a", " ", "<U+0060>", "b", "<U+0060>", "]">>,
      <<"[", "*", " ", "<U+0060>", "[", "a", "<U+0060>", "]">>,
      <<"[", "[", "[", "$", " ", "x", "]", "]">>,
      <<"[", "-", " ", " ", "]">>, <<"[", "_", "\t", " ", "]">> }

\* the tokens of the generated code:<token> lines
TokenChars == {"a", "B", "1", "_", ".", "+", " "}
Tokens ==
    SeqsUpTo(TokenChars, MaxLen - 1)
        \cup { <<"t", "e", "s", "t", ".", "j", "s">>,
               <<"D", "o", "c", "k", "e", "r", "f", "i", "l", "e">> }

CodeStartLines ==
    {CodeColon \o t : t \in Tokens} \cup {<<" ">> \o CodeColon \o t : t \in Tokens}

LineInputs ==
    CoreLines \cup TagLines \cup BracketLines \cup DoubleBracketLines
        \cup ExampleLines \cup CodeStartLines

\* the lines of the generated code-block lists
CodeLines ==
    { CodeColon \o <<"a">>, <<" ">> \o CodeColon \o <<"b">>,
      <<" ", "x">>, <<" ", " ", "y">>, <<"\t", "#", "a">>, <<"z">>,
      <<>>, <<" ">> }

\* "parseLines - コードブロック複数行"
CodeBlockExample ==
    << CodeColon \o <<"a", ".", "j", "s">>, <<" ", "x", "=", "1">>,
       <<" ", "y", "=", "2">>, <<"z">> >>

ParseInputs ==
    {<<l>> : l \in LineInputs} \cup SeqsUpTo(CodeLines, MaxBlock)
        \cup {CodeBlockExample}

\* the loop of parseLines with the line parsed before the close check
ParseNextLineParseFirst ==
    /\ Len(results) < Len(input)
    /\ LET line == input[Len(results) + 1]
           indent == measureIndent(line).indent
           parsed == parseLine(line, blockOpen)
           open == IF blockOpen /\ indent <= blockIndent /\ ~IsBlank(line)
                   THEN FALSE ELSE blockOpen
       IN  /\ results' = Append(results, parsed)
           /\ blockOpen' = (IF parsed.isCodeBlock THEN TRUE ELSE open)
           /\ blockIndent' = (IF parsed.isCodeBlock THEN indent ELSE blockIndent)
    /\ UNCHANGED <<input, graphVars, ioVars>>

\* one iteration of the loop of parseLines: the next line of the input
ParseNextLine ==
    /\ Len(results) < Len(input)
    /\ LET line == input[Len(results) + 1]
           indent == measureIndent(line).indent
           open == IF blockOpen /\ indent <= blockIndent /\ ~IsBlank(line)
                   THEN FALSE ELSE blockOpen
           parsed == parseLine(line, open)
       IN  /\ results' = Append(results, parsed)
           /\ blockOpen' = (IF parsed.isCodeBlock THEN TRUE ELSE open)
           /\ blockIndent' = (IF parsed.isCodeBlock THEN indent ELSE blockIndent)
    /\ UNCHANGED <<input, graphVars, ioVars>>

InitParse ==
    /\ input \in ParseInputs
    /\ results = <<>>
    /\ blockOpen = FALSE
    /\ blockIndent = 0
    /\ pages = <<>>
    /\ graph = NoGraph
    /\ history = <<>>
    /\ edit = NoEdit
    /\ result = NoResult
    /\ IoIdle

NextParse == ParseNextLine

SpecParse == InitParse /\ [][NextParse]_vars

-----------------------------------------------------------------------------
(* Properties of the graph specification                                   *)

Built == Len(history) > 0

PageTitles == {pages[i].title : i \in DOMAIN pages}

\* the members of map[k], none when the map has no entry for k
Members(map, k) == Range(GetOrEmpty(map, k))

\* every title the graph or the queries name
GraphTitles ==
    QueryTitles \cup PageTitles \cup DOMAIN graph.forwardLinks
        \cup DOMAIN graph.backLinks

NoDuplicates(seq) == \A i, j \in DOMAIN seq : seq[i] = seq[j] => i = j

\* C1: in the graph built from any page list (pages without links and
\* repeated titles included) every page title is in existingPages and has a
\* forwardLinks entry and a backLinks entry
C1_SeededPages ==
    Built =>
        \A i \in DOMAIN pages :
            /\ pages[i].title \in Range(graph.existingPages)
            /\ pages[i].title \in DOMAIN graph.forwardLinks
            /\ pages[i].title \in DOMAIN graph.backLinks

\* a graph built from a list with a repeated title and a page that neither
\* links nor is linked to
C1_Witness ==
    /\ Built
    /\ \E i, j \in DOMAIN pages : i # j /\ pages[i].title = pages[j].title
    /\ \E i \in DOMAIN pages :
          /\ graph.forwardLinks[pages[i].title] = <<>>
          /\ graph.backLinks[pages[i].title] = <<>>

\* C2: in every built graph y is in backLinks[x] exactly when x is in
\* forwardLinks[y], an absent entry counting as the empty set
C2_BacklinkSymmetry ==
    Built =>
        \A x, y \in GraphTitles :
            y \in Members(graph.backLinks, x) <=> x \in Members(graph.forwardLinks, y)

\* a built graph with a link to a page of the list and a link to a title
\* that is no page
C2_Witness ==
    /\ Built
    /\ \E x \in PageTitles : Members(graph.backLinks, x) # {}
    /\ \E x \in GraphTitles \ PageTitles : Members(graph.backLinks, x) # {}

\* C3: what get2HopLinks(graph, t) returns holds neither t nor a member of
\* forwardLinks[t] nor a member of backLinks[t], and no title twice
C3_TwoHopExcludes ==
    result.op = "get2HopLinks" =>
        /\ result.title \notin Range(result.value)
        /\ Range(result.value) \cap Members(graph.forwardLinks, result.title) = {}
        /\ Range(result.value) \cap Members(graph.backLinks, result.title) = {}
        /\ NoDuplicates(result.value)

\* a two-hop result for a page with a one-hop page, one of its titles reached
\* over two different one-hop pages
C3_Witness ==
    /\ result.op = "get2HopLinks"
    /\ Len(result.value) >= 1
    /\ \E x \in Range(result.value) :
          \E p, q \in Members(graph.forwardLinks, result.title)
                          \cup Members(graph.backLinks, result.title) :
              /\ p # q
              /\ x \in Members(graph.forwardLinks, p) \cup Members(graph.backLinks, p)
              /\ x \in Members(graph.forwardLinks, q) \cup Members(graph.backLinks, q)

\* the two-hop set of the specification: reachable over one more edge, in
\* either direction, from a one-hop page, and not excluded
TwoHopSet(g, t) ==
    LET outgoing == Members(g.forwardLinks, t)
        incoming == Members(g.backLinks, t)
    IN  { x \in GraphTitles :
            /\ x \notin outgoing \cup incoming \cup {t}
            /\ \E p \in outgoing \cup incoming :
                  x \in Members(g.forwardLinks, p) \cup Members(g.backLinks, p) }

\* C4: as a set, get2HopLinks(graph, t) is exactly the titles outside
\* outgoing, incoming and t that are a forward or back link of a member of
\* outgoing or incoming; for the chain A -> B -> C -> D, the result for A
\* holds C and does not hold D
C4_TwoHopExact ==
    result.op = "get2HopLinks" =>
        /\ Range(result.value) = TwoHopSet(graph, result.title)
        /\ (pages = ChainPages /\ result.title = A) =>
               C \in Range(result.value) /\ D \notin Range(result.value)

\* the query for A on the chain, and on any graph a two-hop page reached
\* over an incoming page only
C4_Witness ==
    /\ result.op = "get2HopLinks"
    /\ \/ pages = ChainPages /\ result.title = A
       \/ \E x \in Range(result.value) :
             \A p \in Members(graph.forwardLinks, result.title) :
                 x \notin Members(graph.forwardLinks, p) \cup Members(graph.backLinks, p)

\* C5 as stated: for the 3-cycle A -> B -> C -> A, get2HopLinks(graph, A)
\* holds neither A nor B, and holds C
C5_Original ==
    (pages = CyclePages /\ result.op = "get2HopLinks" /\ result.title = A) =>
        /\ A \notin Range(result.value)
        /\ B \notin Range(result.value)
        /\ C \in Range(result.value)

\* C5 as amended: for the 3-cycle A -> B -> C -> A, get2HopLinks(graph, A)
\* holds neither A nor B, and does not hold C either (C links to A, so it is
\* an incoming one-hop page)
C5_CycleTwoHop ==
    (pages = CyclePages /\ result.op = "get2HopLinks" /\ result.title = A) =>
        /\ A \notin Range(result.value)
        /\ B \notin Range(result.value)
        /\ C \notin Range(result.value)

\* the query for A on the 3-cycle, where B is outgoing and C incoming
C5_Witness ==
    /\ pages = CyclePages
    /\ result.op = "get2HopLinks"
    /\ result.title = A
    /\ graph.forwardLinks[A] = <<B>>
    /\ graph.backLinks[A] = <<C>>

-----------------------------------------------------------------------------
(* Properties of the editing specification                                 *)

\* the titles of a page list
TitlesOf(ps) == {ps[i].title : i \in DOMAIN ps}

\* the targets the hashtags and links of line j name, from left to right
LineTargets(lines, j) ==
    LET ls == LineLinks(lines, j) IN [n \in DOMAIN ls |-> ls[n].target]

\* the targets the hashtags and links of a page name
PageTargets(page) ==
    UNION {Range(LineTargets(page.lines, j)) : j \in DOMAIN page.lines}

\* how often x occurs in a sequence
Count(seq, x) == Cardinality({n \in DOMAIN seq : seq[n] = x})

\* the lines i.. of a page that name the target, in line order
RECURSIVE LinesNaming(_, _, _)
LinesNaming(lines, t, i) ==
    IF i > Len(lines) THEN <<>>
    ELSE (IF t \in Range(LineTargets(lines, i)) THEN <<lines[i]>> ELSE <<>>)
             \o LinesNaming(lines, t, i + 1)

\* two graphs with the same pages and the same forward and back sets
SameSets(g, h) ==
    /\ Range(g.existingPages) = Range(h.existingPages)
    /\ DOMAIN g.forwardLinks = DOMAIN h.forwardLinks
    /\ DOMAIN g.backLinks = DOMAIN h.backLinks
    /\ \A t \in DOMAIN g.forwardLinks :
           Range(g.forwardLinks[t]) = Range(h.forwardLinks[t])
    /\ \A t \in DOMAIN g.backLinks :
           Range(g.backLinks[t]) = Range(h.backLinks[t])

C7_DanglingRecorded ==
    \A n \in DOMAIN history :
        LET ps == history[n].pages
            g == history[n].graph
        IN  \A i \in DOMAIN ps :
                \A d \in PageTargets(ps[i]) \ TitlesOf(ps) :
                    /\ d \in Members(g.forwardLinks, ps[i].title)
                    /\ d \in DOMAIN g.backLinks
                    /\ ps[i].title \in Members(g.backLinks, d)
                    /\ d \notin Range(g.existingPages)
                    /\ d \notin DOMAIN g.forwardLinks

\* C8: a page p (the only page of its title) that names the target t on k
\* lines, once on each, has t once in forwardLinks[p], p once in
\* backLinks[t], and exactly these k lines, in line order, as
\* linkContexts[p][t]
C8_ContextPerLine ==
    \A n \in DOMAIN history :
        LET ps == history[n].pages
            g == history[n].graph
        IN  \A i \in DOMAIN ps :
                (\A j \in DOMAIN ps : ps[j].title = ps[i].title => j = i) =>
                    \A t \in PageTargets(ps[i]) :
                        (\A j \in DOMAIN ps[i].lines :
                             Count(LineTargets(ps[i].lines, j), t) <= 1) =>
                            /\ Count(GetOrEmpty(g.forwardLinks, ps[i].title), t) = 1
                            /\ Count(GetOrEmpty(g.backLinks, t), ps[i].title) = 1
                            /\ getLinkContext(g, ps[i].title, t)
                                   = LinesNaming(ps[i].lines, t, 1)

\* C9: every hashtag or link of the node tree of a line, those in the
\* children of a decoration included, gives an edge from the page to its
\* target in the built graph
C9_NestedLinksExtracted ==
    \A n \in DOMAIN history :
        LET ps == history[n].pages
            g == history[n].graph
        IN  \A i \in DOMAIN ps :
                \A t \in PageTargets(ps[i]) :
                    /\ t \in Members(g.forwardLinks, ps[i].title)
                    /\ ps[i].title \in Members(g.backLinks, t)

\* C10: the graph built after a hashtag #T was replaced by the link [T], or
\* the link by the hashtag, at a position where the parser recognises both,
\* has the forwardLinks and backLinks of the graph built before
C10_HashtagIsLink ==
    \A n \in DOMAIN history :
        (n > 1 /\ history[n].edit.kind = "replace") =>
            /\ history[n].graph.forwardLinks = history[n - 1].graph.forwardLinks
            /\ history[n].graph.backLinks = history[n - 1].graph.backLinks

\* a hashtag that gave an edge was replaced by a link, the page list was
\* built again, the link was replaced by the hashtag and the list built
\* once more
C10_Witness ==
    \E n \in DOMAIN history :
        /\ n > 2
        /\ history[n].edit.kind = "replace"
        /\ history[n].edit.from = "internal-link"
        /\ history[n - 1].edit.kind = "replace"
        /\ history[n - 1].edit.from = "hashtag"
        /\ history[n].edit.target
               \in Members(history[n].graph.forwardLinks,
                           history[n].pages[history[n].edit.page].title)

-----------------------------------------------------------------------------
(* The search index: buildSearchIndex and search                           *)

\* the text a node contributes to the plain text of its line
RECURSIVE extractTextFromNode(_), extractTextFromNodes(_)
extractTextFromNode(node) ==
    CASE node.type = "text" -> node.text
      [] node.type = "internal-link" -> node.title
      [] node.type = "external-link" -> node.title
      [] node.type = "external-project-link" -> node.page
      [] node.type = "image" -> <<>>
      [] node.type = "icon" -> <<>>
      [] node.type = "hashtag" -> node.tag
      [] node.type \in {"bold", "italic", "strikethrough", "underline"} ->
             extractTextFromNodes(node.children)
      [] node.type = "code" -> node.code
      [] node.type = "math" -> node.formula
      [] OTHER -> <<>>

\* nodes.map(extractTextFromNode).join("")
extractTextFromNodes(nodes) ==
    IF Len(nodes) = 0 THEN <<>>
    ELSE extractTextFromNode(nodes[1]) \o extractTextFromNodes(Tail(nodes))

\* textLines.join("\n")
RECURSIVE JoinLines(_)
JoinLines(textLines) ==
    IF Len(textLines) = 0 THEN <<>>
    ELSE IF Len(textLines) = 1 THEN textLines[1]
    ELSE textLines[1] \o <<"\n">> \o JoinLines(Tail(textLines))

\* the plain text of a page: the text of the nodes of each parsed line
extractPlainText(page) ==
    LET parsedLines == parseLines(page.lines)
    IN  JoinLines([i \in DOMAIN parsedLines |->
                       extractTextFromNodes(parsedLines[i].nodes)])

\* one entry per page, in the order of the pages (created and updated are
\* copied from the page and read by no search)
buildSearchIndex(ps) ==
    [i \in DOMAIN ps |->
        [title |-> ps[i].title, content |-> extractPlainText(ps[i])]]

\* s.indexOf(sub) from the 0-based position i, or -1
RECURSIVE IndexFrom(_, _, _)
IndexFrom(s, sub, i) ==
    IF i + Len(sub) > Len(s) THEN -1
    ELSE IF SubSeq(s, i + 1, i + Len(sub)) = sub THEN i
    ELSE IndexFrom(s, sub, i + 1)

\* s.includes(sub)
Includes(s, sub) == IndexFrom(s, sub, 0) # -1

\* (s.match(new RegExp(escapeRegExp(k), "gi")) || []).length: the matches
\* of the literal k in s that do not overlap, from the left
RECURSIVE CountMatches(_, _, _)
CountMatches(s, k, i) ==
    LET at == IndexFrom(s, k, i)
    IN  IF at = -1 THEN 0 ELSE 1 + CountMatches(s, k, at + Len(k))

\* s.trim()
Trim(s) ==
    LET first == FirstFrom(s, 1, "notspace")
        last == IF first > Len(s) THEN 0
                ELSE CHOOSE j \in first..Len(s) :
                         /\ ~IsSpace(s[j])
                         /\ \A m \in (j + 1)..Len(s) : IsSpace(s[m])
    IN  SubSeq(s, first, last)

NonEmptyKeyword(k) == Len(k) > 0

Min(a, b) == IF a < b THEN a ELSE b
Max(a, b) == IF a > b THEN a ELSE b

\* createSnippet(content, query) with maxLength = 100
createSnippet(content, query) ==
    LET index == IndexFrom(LowerStr(content), LowerStr(query), 0)
        dots == <<".", ".", ".">>
        start == Max(0, index - 30)
        end == Min(Len(content), index + Len(query) + 70)
    IN  IF index = -1
        THEN SubSeq(content, 1, Min(Len(content), 100))
                 \o (IF Len(content) > 100 THEN dots ELSE <<>>)
        ELSE (IF start > 0 THEN dots ELSE <<>>)
                 \o SubSeq(content, start + 1, end)
                 \o (IF end < Len(content) THEN dots ELSE <<>>)

\* every keyword is in the title or in the content of the entry
allMatch(entry, keywords) ==
    \A n \in DOMAIN keywords :
        \/ Includes(LowerStr(entry.title), LowerStr(keywords[n]))
        \/ Includes(LowerStr(entry.content), LowerStr(keywords[n]))

\* the sum over the keywords of ten times the matches in the content
RECURSIVE contentScore(_, _)
contentScore(entry, keywords) ==
    IF Len(keywords) = 0 THEN 0
    ELSE CountMatches(LowerStr(entry.content), LowerStr(keywords[1]), 0) * 10
             + contentScore(entry, Tail(keywords))

\* the result pushed for an entry that matches
searchResult(entry, keywords, query) ==
    LET lowerTitle == LowerStr(entry.title)
        titleMatch == Includes(lowerTitle, LowerStr(keywords[1]))
        titleScore == IF ~titleMatch THEN 0
                      ELSE IF lowerTitle = LowerStr(query) THEN 150
                      ELSE 100
    IN  [title |-> entry.title,
         content |-> entry.content,
         snippet |-> createSnippet(entry.content, keywords[1]),
         matchType |-> IF titleMatch THEN "title" ELSE "content",
         score |-> titleScore + contentScore(entry, keywords)]

\* the loop over index.pages
RECURSIVE collectResults(_, _, _)
collectResults(entries, keywords, query) ==
    IF Len(entries) = 0 THEN <<>>
    ELSE (IF allMatch(entries[1], keywords)
          THEN <<searchResult(entries[1], keywords, query)>>
          ELSE <<>>)
             \o collectResults(Tail(entries), keywords, query)

\* results.sort((a, b) => b.score - a.score): by falling score, results
\* of equal score in the order they were pushed
RECURSIVE sortByScore(_, _)
sortByScore(rs, n) ==
    IF n = 0 THEN <<>>
    ELSE LET sorted == sortByScore(rs, n - 1)
             k == Cardinality({i \in DOMAIN sorted : sorted[i].score >= rs[n].score})
         IN  SubSeq(sorted, 1, k) \o <<rs[n]>> \o SubSeq(sorted, k + 1, Len(sorted))

search(index, query) ==
    IF Trim(query) = <<>> THEN <<>>
    ELSE LET keywords == SelectSeq(Split(Trim(query)), NonEmptyKeyword)
             found == collectResults(index, keywords, query)
         IN  sortByScore(found, Len(found))

-----------------------------------------------------------------------------
(* The search specification: searches over the index of generated pages    *)

MaxMatches == 11
MaxIndex == 2

\* n times the character c
Repeat(c, n) == [i \in 1..n |-> c]

SearchPages ==
    { Page(<<"a">>, <<>>),
      Page(<<"a">>, << <<"x", " ", "a">> >>),
      Page(<<"A", " ", "b">>, << <<"[", "b", "]">>, <<"#", "x">> >>),
      Page(<<"x">>, << <<"a">> >>),
      Page(<<"x">>, << Repeat("a", MaxMatches - 1) >>),
      Page(<<"x">>, << Repeat("a", MaxMatches) >>),
      Page(<<"b">>, << <<"[", "[", "a", "]", "]">>, <<"[", "*", " ", "a", " ", "b", "]">> >>) }

Queries ==
    { <<"a">>, <<"A">>, <<" ", "a", " ">>, <<"a", " ", "b">>, <<"b", " ", "a">>,
      <<"x">>, <<" ">>, <<>>, <<"a", " ", "a">> }

SearchInputs == SeqsUpTo(SearchPages, MaxIndex) \ {<<>>}

\* the caller builds the index of its pages and searches it
Search(query) ==
    /\ result' = [op |-> "search", query |-> query,
                  results |-> search(buildSearchIndex(pages), query)]
    /\ UNCHANGED <<pages, graph, history, edit, parserVars, ioVars>>

InitSearch ==
    /\ pages \in SearchInputs
    /\ graph = NoGraph
    /\ history = <<>>
    /\ edit = NoEdit
    /\ result = NoResult
    /\ ParserIdle
    /\ IoIdle

NextSearch == \E query \in Queries : Search(query)

SpecSearch == InitSearch /\ [][NextSearch]_vars

-----------------------------------------------------------------------------
(* Properties of the parser specification                                  *)

IndentOf(i) == measureIndent(input[i]).indent

\* the line has no character other than white space
OnlyWhitespace(s) == \A i \in DOMAIN s : IsSpace(s[i])

\* every line between the lines i and j is blank or indented deeper than
\* line i
InBlock(i, j) ==
    \A m \in (i + 1)..(j - 1) : OnlyWhitespace(input[m]) \/ IndentOf(m) > IndentOf(i)

\* the flags of the four lines of the code-block example
ExampleFlags ==
    (input = CodeBlockExample /\ Len(results) = 4) =>
        /\ results[1].isCodeBlock /\ ~results[1].isCodeBlockContent
        /\ ~results[2].isCodeBlock /\ results[2].isCodeBlockContent
        /\ ~results[3].isCodeBlock /\ results[3].isCodeBlockContent
        /\ ~results[4].isCodeBlock /\ ~results[4].isCodeBlockContent

\* C11 as stated: after a code-block start at indent k every line indented
\* deeper than k is code-block content, up to the first non-blank line with
\* indent <= k, which is neither a start nor content
C11_Original ==
    /\ ExampleFlags
    /\ \A i \in DOMAIN results : results[i].isCodeBlock =>
           \A j \in (i + 1)..Len(results) : InBlock(i, j) =>
               /\ IndentOf(j) > IndentOf(i) => results[j].isCodeBlockContent
               /\ (~OnlyWhitespace(input[j]) /\ IndentOf(j) <= IndentOf(i)) =>
                      /\ ~results[j].isCodeBlock
                      /\ ~results[j].isCodeBlockContent

\* C11: after a code-block start at indent k every line indented deeper
\* than k is code-block content, up to the first non-blank line with
\* indent <= k; that line is not content, and it is a code-block start
\* exactly when it matches code:<token> itself; a blank line with indent
\* <= k inside the block is content exactly when it is indented
C11_CodeBlockThreading ==
    /\ ExampleFlags
    /\ \A i \in DOMAIN results : results[i].isCodeBlock =>
           \A j \in (i + 1)..Len(results) : InBlock(i, j) =>
               /\ IndentOf(j) > IndentOf(i) =>
                      results[j].isCodeBlockContent /\ ~results[j].isCodeBlock
               /\ (~OnlyWhitespace(input[j]) /\ IndentOf(j) <= IndentOf(i)) =>
                      /\ ~results[j].isCodeBlockContent
                      /\ results[j].isCodeBlock
                             = isCodeBlockStart(measureIndent(input[j]).content).isCodeBlock
               /\ (OnlyWhitespace(input[j]) /\ IndentOf(j) <= IndentOf(i)) =>
                      /\ results[j].isCodeBlockContent = (IndentOf(j) > 0)
                      /\ ~results[j].isCodeBlock

\* a code block at indent 1 with a blank line and a deeper line after it,
\* closed by a line that starts the next code block
C11_Witness ==
    /\ Len(results) = 4
    /\ results[1].isCodeBlock /\ IndentOf(1) = 1
    /\ OnlyWhitespace(input[2]) /\ IndentOf(2) = 1
    /\ IndentOf(3) = 2 /\ results[3].isCodeBlockContent
    /\ IndentOf(4) = 0 /\ results[4].isCodeBlock

\* the node types of line-types.ts
NodeTypes ==
    {"text", "internal-link", "external-link", "external-project-link",
     "image", "icon", "hashtag", "bold", "italic", "strikethrough",
     "underline", "code", "math"}

\* a sequence of nodes, each of a known type with its raw text, the
\* children of a decoration likewise
RECURSIVE WellFormedNodes(_)
WellFormedNodes(nodes) ==
    \A n \in DOMAIN nodes :
        /\ DOMAIN nodes[n] \subseteq
               {"type", "raw", "text", "title", "url", "project", "page",
                "user", "tag", "level", "children", "code", "formula"}
        /\ {"type", "raw"} \subseteq DOMAIN nodes[n]
        /\ nodes[n].type \in NodeTypes
        /\ "children" \in DOMAIN nodes[n] => WellFormedNodes(nodes[n].children)

\* the texts the inline scan of a line may have to scan: the non-empty
\* pieces s[i..j] that end with the line or before a closing bracket
Pieces(s) ==
    {SubSeq(s, i, j) :
         i \in DOMAIN s,
         j \in {k \in DOMAIN s : k = Len(s) \/ s[k + 1] = "]"}} \ {<<>>}

\* what an iteration of the inline scan may hold: no node or some node, and
\* a pending text that is empty or ends in a space or in a letter
ScanNodes == {<<>>, <<TextNode(<<"a">>)>>}
ScanBuffers == {<<>>, <<" ">>, <<"a">>}

\* C12: every iteration of the inline scan, on every text it may meet in an
\* input line and whatever was scanned before, takes at least one character and
\* no more than there are, and every line done has a ParsedLine of
\* well-formed nodes
C12_Total ==
    /\ \A i \in DOMAIN input : \A r \in Pieces(input[i]) :
           \A nodes \in ScanNodes : \A textBuffer \in ScanBuffers :
               consumed(r, nodes, textBuffer) \in 1..Len(r)
    /\ \A i \in DOMAIN results :
           /\ results[i].indent \in 0..Len(input[i])
           /\ results[i].isCodeBlock \in BOOLEAN
           /\ results[i].isCodeBlockContent \in BOOLEAN
           /\ results[i].isQuote \in BOOLEAN
           /\ WellFormedNodes(results[i].nodes)

\* the line "[[]]" is parsed: the internal link "[" and the text "]"
C12_Witness ==
    /\ input = << <<"[", "[", "]", "]">> >>
    /\ Len(results) = 1
    /\ results[1].nodes =
           << [type |-> "internal-link", raw |-> <<"[", "[", "]">>,
               title |-> <<"[">>],
              TextNode(<<"]">>) >>

\* the raw texts of a sequence of nodes, one after the other
RECURSIVE RawText(_)
RawText(nodes) ==
    IF Len(nodes) = 0 THEN <<>> ELSE nodes[1].raw \o RawText(Tail(nodes))

\* C13 as stated: the raw texts of the nodes of a parsed line make up the
\* whole line
C13_Original ==
    \A i \in DOMAIN results :
        ~results[i].isCodeBlockContent => RawText(results[i].nodes) = input[i]

\* C13: a line is its indent (spaces and tabs, counted in indent), then for
\* a quote the ">" and at most one space, then the raw texts of its nodes:
\* every character after the indent and the quote mark is in a raw text
C13_RawAccounting ==
    \A i \in DOMAIN results :
        LET line == input[i]
            n == results[i].indent
            raws == RawText(results[i].nodes)
        IN  /\ n <= Len(line)
            /\ \A k \in 1..n : line[k] \in {" ", "\t"}
            /\ \E mark \in {<<>>, <<">">>, <<">", " ">>} :
                   /\ line = SubSeq(line, 1, n) \o mark \o raws
                   /\ results[i].isQuote = (mark # <<>>)
                   /\ mark = <<">">> => ~StartsWith(raws, <<" ">>)

\* the indented quote " >#a" is parsed: the indent and the ">" are in no
\* raw text
C13_Witness ==
    /\ input = << <<" ", ">", "#", "a">> >>
    /\ Len(results) = 1
    /\ results[1].indent = 1
    /\ results[1].isQuote
    /\ RawText(results[1].nodes) = <<"#", "a">>

\* the line is "[[" X "]]" for an X without "]"
IsDoubleBracket(line) ==
    /\ Len(line) >= 4
    /\ StartsWith(line, <<"[", "[">>)
    /\ EndsWith(line, <<"]", "]">>)
    /\ \A k \in 3..(Len(line) - 2) : line[k] # "]"

Inner(line) == SubSeq(line, 3, Len(line) - 2)

\* C14 as stated: "[[X]]" with no "]" in X gives one Bold node of level 1
\* whose only child is the Text node of X
C14_Original ==
    (Len(results) = 1 /\ IsDoubleBracket(input[1])) =>
        LET X == Inner(input[1])
        IN  /\ Len(results[1].nodes) = 1
            /\ results[1].nodes[1].type = "bold"
            /\ results[1].nodes[1].level = 1
            /\ results[1].nodes[1].children
                   = <<[type |-> "text", raw |-> X, text |-> X]>>

\* C14: "[[X]]" with a non-empty X without "]" gives one Bold node of level
\* 1 with the whole line as raw text, whose children are the inline parse
\* of X: the Text node of X alone when X holds no "#" and no backtick
C14_DoubleBracketBold ==
    (Len(results) = 1 /\ IsDoubleBracket(input[1]) /\ Len(input[1]) > 4) =>
        LET X == Inner(input[1])
        IN  /\ Len(results[1].nodes) = 1
            /\ results[1].nodes[1].type = "bold"
            /\ results[1].nodes[1].level = 1
            /\ results[1].nodes[1].raw = input[1]
            /\ RawText(results[1].nodes[1].children) = X
            /\ \A n \in DOMAIN results[1].nodes[1].children :
                   results[1].nodes[1].children[n].type
                       \in {"text", "hashtag", "code"}
            /\ (\A k \in DOMAIN X : X[k] \notin {"#", "<U+0060>"}) =>
                   results[1].nodes[1].children
                       = <<[type |-> "text", raw |-> X, text |-> X]>>

\* "[[ a[]]" is parsed: one Bold node, its child the text " a["
C14_Witness ==
    /\ input = << <<"[", "[", " ", "a", "[", "]", "]">> >>
    /\ Len(results) = 1
    /\ results[1].nodes[1].type = "bold"
    /\ Len(results[1].nodes[1].children) = 1
    /\ results[1].nodes[1].children[1].text = <<" ", "a", "[">>

\* the remainder is image-like: a Gyazo URL, a known image extension or the
\* local image path pattern
ImageLike(r) == GYAZO_PATTERN(r) \/ IMAGE_EXTENSIONS(r) \/ LOCAL_IMAGE_PATH(r)

StarMarkers == {m \in Markers : m[1] = "*"}

RECURSIVE Spans(_, _)
Spans(nodes, start) ==
    IF Len(nodes) = 0 THEN <<>>
    ELSE <<[node |-> nodes[1], from |-> start,
            to |-> start + Len(nodes[1].raw) - 1]>>
             \o Spans(Tail(nodes), start + Len(nodes[1].raw))

LineSpans == Spans(results[1].nodes, InlineOffset(input[1]) + 1)

\* a character a hashtag may hold
TagChar(c) == ~IsSpace(c) /\ c \notin {"[", "]", "#"}

\* position p of the line holds a "#" followed by a tag character, and is
\* not inside a bracket, a double bracket or an inline code
OpenHash(p) ==
    LET line == input[1]
    IN  /\ p > InlineOffset(line) /\ p < Len(line)
        /\ line[p] = "#" /\ TagChar(line[p + 1])
        /\ \A n \in DOMAIN LineSpans :
               (LineSpans[n].from < p /\ p <= LineSpans[n].to) =>
                   LineSpans[n].node.type \in {"text", "hashtag"}

HashtagAt(p) ==
    \E n \in DOMAIN LineSpans :
        LineSpans[n].node.type = "hashtag" /\ LineSpans[n].from = p

\* the character before position p is one of the given ones
After(p, chars) == p > 1 /\ input[1][p - 1] \in chars

\* a node of one of the types ends just before position p
NodeBefore(p, types) ==
    \E n \in DOMAIN LineSpans :
        LineSpans[n].to = p - 1 /\ LineSpans[n].node.type \in types

BracketTypes == NodeTypes \ {"text", "hashtag", "code"}

\* "a#b" has no Hashtag, "a #b" has Hashtag(tag = "b") and "[link]#tag"
\* has a Hashtag
HashtagExamples ==
    /\ input = << <<"a", "#", "b">> >> =>
           \A n \in DOMAIN results[1].nodes : results[1].nodes[n].type # "hashtag"
    /\ input = << <<"a", " ", "#", "b">> >> =>
           results[1].nodes[3] = [type |-> "hashtag", raw |-> <<"#", "b">>,
                                  tag |-> <<"b">>]
    /\ input = << <<"[", "l", "i", "n", "k", "]", "#", "t", "a", "g">> >> =>
           results[1].nodes[2].type = "hashtag"

C17_Quote ==
    \A i \in DOMAIN results :
        LET c == Slice(input[i], IndentOf(i))
            oneGt == /\ Len(c) >= 1 /\ c[1] = ">"
                     /\ (Len(c) >= 2 => c[2] # ">")
            rest == IF Len(c) >= 2 /\ c[2] = " " THEN Slice(c, 2) ELSE Slice(c, 1)
        IN  /\ results[i].isQuote
                = (~results[i].isCodeBlockContent /\ ~results[i].isCodeBlock /\ oneGt)
            /\ results[i].isQuote => results[i].nodes = parseInlineContent(rest)
            /\ input[i] = <<">">> => results[i].isQuote /\ results[i].nodes = <<>>
            /\ input[i] = <<">", ">", "x">> => ~results[i].isQuote

\* the quote "> x #b" is parsed: its nodes are those of "x #b"
C17_Witness ==
    /\ input = << <<">", " ", "x", " ", "#", "b">> >>
    /\ Len(results) = 1
    /\ results[1].isQuote
    /\ Len(results[1].nodes) = 3
    /\ results[1].nodes[1].text = <<"x">>
    /\ results[1].nodes[3].type = "hashtag"

\* the words of a bracket interior: its pieces between white space
NotEmpty(w) == w # <<>>
Words(c) == SelectSeq(Split(c), NotEmpty)

NoUrlIn(w) == ~URL_PATTERN_GLOBAL(w)
IsImageUrl(u) == GYAZO_PATTERN(u) \/ IMAGE_EXTENSIONS(u)

\* one word of the interior is a URL that is no image, and no other word
\* holds a URL
OneUrlWord(c) ==
    /\ \E k \in DOMAIN Words(c) :
           /\ URL_PATTERN(Words(c)[k]) /\ ~IsImageUrl(Words(c)[k])
           /\ \A j \in DOMAIN Words(c) \ {k} : NoUrlIn(Words(c)[j])

TheUrl(c) == UrlText(c, FirstUrl(c, 1))

\* C18: a bracket whose interior holds one URL that is no image gives an
\* ExternalLink of that URL; its title is the URL when the interior has no
\* other word and otherwise the other words joined by single spaces, for
\* the URL first and the URL last, and it is never empty
C18_ExternalLinkTitle ==
    Len(results) = 1 =>
        \A c \in UrlInteriors :
            (input[1] = <<"[">> \o c \o <<"]">> /\ OneUrlWord(c)) =>
                LET node == results[1].nodes[1]
                    others == SelectSeq(Words(c), NoUrlIn)
                IN  /\ Len(results[1].nodes) = 1
                    /\ node.type = "external-link"
                    /\ node.url = TheUrl(c)
                    /\ node.title # <<>>
                    /\ node.title = IF others = <<>> THEN TheUrl(c) ELSE Join(others)

\* the same for the interiors without white space at either end
C18_TitleWithoutOuterSpace ==
    Len(results) = 1 =>
        \A c \in UrlInteriors :
            (/\ input[1] = <<"[">> \o c \o <<"]">> /\ OneUrlWord(c)
             /\ ~IsSpace(c[1]) /\ ~IsSpace(c[Len(c)])) =>
                LET node == results[1].nodes[1]
                    others == SelectSeq(Words(c), NoUrlIn)
                IN  /\ Len(results[1].nodes) = 1
                    /\ node.type = "external-link"
                    /\ node.url = TheUrl(c)
                    /\ node.title # <<>>
                    /\ node.title = IF others = <<>> THEN TheUrl(c) ELSE Join(others)

\* the special forms of a bracket interior c, read off its characters
IsProjectForm(c) ==
    /\ c[1] = "/"
    /\ \E k \in 3..Len(c) : c[k] = "/" /\ \A j \in 2..(k - 1) : c[j] # "/"

IsIconForm(c) ==
    /\ Len(c) >= 6
    /\ SubSeq(c, Len(c) - 4, Len(c)) = <<".", "i", "c", "o", "n">>
    /\ \A j \in 1..(Len(c) - 5) : ~IsSpace(c[j]) /\ c[j] # "."

IsMathForm(c) == Len(c) >= 2 /\ c[1] = "$" /\ c[2] = " "

\* a marker, white space and at least one more character
IsDecorationForm(c) ==
    \/ \E m \in 1..Len(c) :
           /\ \A j \in 1..m : c[j] = "*"
           /\ Len(c) >= m + 2 /\ IsSpace(c[m + 1])
    \/ c[1] \in {"/", "-", "_"} /\ Len(c) >= 3 /\ IsSpace(c[2])

\* a scheme followed by a character that is no white space
HoldsUrl(c) ==
    \E i \in DOMAIN c : \E scheme \in {Http, Https} :
        /\ i + Len(scheme) <= Len(c)
        /\ SubSeq(c, i, i + Len(scheme) - 1) = scheme
        /\ ~IsSpace(c[i + Len(scheme)])

IsSpecialForm(c) ==
    \/ IsProjectForm(c) \/ IsIconForm(c) \/ IsMathForm(c)
    \/ IsDecorationForm(c) \/ LOCAL_IMAGE_PATH(c) \/ HoldsUrl(c)

\* C19: a line "[" c "]" with a non-empty c without "]" gives exactly one
\* node, whose raw text is the line, whatever c is; when c is none of the
\* special forms the node is the InternalLink with title c
C19_InternalLinkFallback ==
    Len(results) = 1 =>
        \A c \in Interiors \ {<<>>} :
            input[1] = <<"[">> \o c \o <<"]">> =>
                /\ Len(results[1].nodes) = 1
                /\ results[1].nodes[1].raw = input[1]
                /\ results[1].nodes[1].type \in NodeTypes \ {"text", "hashtag", "code"}
                /\ ~IsSpecialForm(c) =>
                       results[1].nodes[1]
                           = [type |-> "internal-link", raw |-> input[1], title |-> c]

\* "[http://]" is parsed: a scheme alone is no URL and the interior is the
\* title of an internal link
C19_Witness ==
    /\ input = << <<"[">> \o Http \o <<"]">> >>
    /\ Len(results) = 1
    /\ ~IsSpecialForm(Http)
    /\ results[1].nodes
           = << [type |-> "internal-link", raw |-> input[1], title |-> Http] >>

-----------------------------------------------------------------------------
(* Properties of the search specification                                  *)

Found == result.results

\* the results are in the order of falling score
SortedByScore ==
    result.op = "search" =>
        \A i, j \in DOMAIN Found : i < j => Found[i].score >= Found[j].score

C20_TitleFirstBelowTen ==
    (/\ result.op = "search"
     /\ \A i \in DOMAIN Found :
            Found[i].matchType = "content" => Found[i].score < 100) =>
        \A i, j \in DOMAIN Found :
            (Found[i].matchType = "content" /\ Found[j].matchType = "title")
                => j < i

\* a search returned a title match and a content match
C20_BothKinds ==
    /\ result.op = "search"
    /\ \E i, j \in DOMAIN Found :
           Found[i].matchType = "title" /\ Found[j].matchType = "content"

\* the line the loop of parseLines takes next
NextIndex == Len(results) + 1
NextLineText == input[NextIndex]
NextLineIndent == measureIndent(NextLineText).indent
ClosesBlock ==
    /\ blockOpen
    /\ ~OnlyWhitespace(NextLineText)
    /\ NextLineIndent <= blockIndent

\* C23: the close check runs before the line is parsed: a line that is not
\* blank and has indent <= the indent of the open block is parsed with
\* insideCodeBlock = false, and when it is a code:<token> line it is a
\* code-block start and opens a block with its own indent; otherwise no
\* block is open after it; a blank line leaves an open block open
C23_CloseBeforeParse ==
    [][ /\ (Len(results) < Len(input) /\ ClosesBlock) =>
            /\ results' = Append(results, parseLine(NextLineText, FALSE))
            /\ blockOpen' = isCodeBlockStart(measureIndent(NextLineText).content).isCodeBlock
            /\ blockOpen' => (results'[NextIndex].isCodeBlock
                                 /\ blockIndent' = NextLineIndent)
        /\ (Len(results) < Len(input) /\ blockOpen /\ OnlyWhitespace(NextLineText)) =>
            /\ blockOpen' /\ blockIndent' = blockIndent
            /\ ~results'[NextIndex].isCodeBlock
      ]_vars

\* a block at indent 1 was closed by an indented line that is no code, and
\* another by a code:<token> line, and a blank line was met inside a block
C23_Witness ==
    /\ Len(results) = 4
    /\ results[1].isCodeBlock /\ IndentOf(1) = 1
    /\ OnlyWhitespace(input[2])
    /\ IndentOf(3) = 1 /\ ~OnlyWhitespace(input[3])
    /\ results[3].isCodeBlock /\ ~results[3].isCodeBlockContent
    /\ IndentOf(4) = 1 /\ ~OnlyWhitespace(input[4])
    /\ ~results[4].isCodeBlock /\ ~results[4].isCodeBlockContent
    /\ ~blockOpen

\* line j belongs to the fenced region opened by the code-block start i: no
\* line after i up to j closes the block
InRegion(i, j) ==
    /\ i <= j
    /\ results[i].isCodeBlock
    /\ \A m \in (i + 1)..j : OnlyWhitespace(input[m]) \/ IndentOf(m) > IndentOf(i)

Fenced(j) == \E i \in 1..j : InRegion(i, j)

\* C24: every line of a fenced region (the code:<token> line and the lines
\* after it up to the line that closes the block) has exactly one of
\* isCodeBlock and isCodeBlockContent, and a line outside every fenced
\* region has neither
C24_ExactlyOneFlag ==
    \A j \in DOMAIN results :
        IF Fenced(j)
        THEN results[j].isCodeBlock # results[j].isCodeBlockContent
        ELSE ~results[j].isCodeBlock /\ ~results[j].isCodeBlockContent

\* the same without the lines of a region that have no indent: they are
\* blank and have neither flag
C24_FlagsOfIndentedLines ==
    \A j \in DOMAIN results :
        /\ ~(results[j].isCodeBlock /\ results[j].isCodeBlockContent)
        /\ (Fenced(j) /\ (IndentOf(j) > 0 \/ results[j].isCodeBlock)) =>
               results[j].isCodeBlock # results[j].isCodeBlockContent
        /\ (Fenced(j) /\ IndentOf(j) = 0 /\ ~results[j].isCodeBlock) =>
               /\ input[j] = <<>>
               /\ ~results[j].isCodeBlockContent
        /\ ~Fenced(j) => ~results[j].isCodeBlock /\ ~results[j].isCodeBlockContent

-----------------------------------------------------------------------------
(* Properties of code blocks in the graph specification                    *)

\* the lines i.. that are code-block starts or code-block content, given
\* whether a block is open before line i and the indent of its start
RECURSIVE FencedFrom(_, _, _, _)
FencedFrom(lines, i, open, k) ==
    IF i > Len(lines) THEN {}
    ELSE LET m == measureIndent(lines[i])
             closes == open /\ m.indent <= k /\ ~OnlyWhitespace(lines[i])
             content == open /\ ~closes /\ m.indent > 0
             start == ~content /\ isCodeBlockStart(m.content).isCodeBlock
         IN  (IF content \/ start THEN {i} ELSE {})
                 \cup FencedFrom(lines, i + 1, (open /\ ~closes) \/ start,
                                 IF start THEN m.indent ELSE k)

FencedLines(lines) == FencedFrom(lines, 1, FALSE, 0)

\* the targets a line names when it is read as an ordinary line
PlainTargets(line) ==
    LET links == TreeLinks(parseLine(line, FALSE).nodes, 1)
    IN  {links[n].target : n \in DOMAIN links}

\* the targets the lines outside the code blocks of the pages titled t name
OpenTargets(t) ==
    UNION { UNION { PlainTargets(pages[q].lines[l]) :
                        l \in DOMAIN pages[q].lines \ FencedLines(pages[q].lines) } :
                q \in {r \in DOMAIN pages : pages[r].title = t} }

\* C25: an indented line parsed inside a code block is one Text node of the
\* line without its indent, with isCodeBlockContent alone true, whatever
\* the line holds; and no link or hashtag of a line of a code block is an
\* edge of the graph
C25_CodeContentLiteral ==
    Built =>
        \A p \in DOMAIN pages :
            /\ \A j \in DOMAIN pages[p].lines :
                   LET m == measureIndent(pages[p].lines[j])
                   IN  m.indent > 0 =>
                           parseLine(pages[p].lines[j], TRUE)
                               = [indent |-> m.indent,
                                  nodes |-> <<[type |-> "text", raw |-> m.content,
                                               text |-> m.content]>>,
                                  isCodeBlock |-> FALSE,
                                  isCodeBlockContent |-> TRUE,
                                  isQuote |-> FALSE]
            /\ Members(graph.forwardLinks, pages[p].title)
                   \subseteq OpenTargets(pages[p].title)
            /\ \A t \in DOMAIN graph.backLinks :
                   pages[p].title \in Range(graph.backLinks[t])
                       => t \in OpenTargets(pages[p].title)

\* the graph of a page with [B] and #C inside a code block and [D] after it
\* is built: D is the only link of the page
C25_Witness ==
    /\ Built
    /\ Len(pages) = 2
    /\ Len(pages[1].lines) = 5
    /\ FencedLines(pages[1].lines) = {1, 2, 4}
    /\ PlainTargets(pages[1].lines[2]) = {B}
    /\ Members(graph.forwardLinks, pages[1].title) = {D}
    /\ B \notin DOMAIN graph.backLinks \/ graph.backLinks[B] = <<>>

-----------------------------------------------------------------------------
(* Properties of code-block starts                                         *)

\* the token of the only line, when the line is an indent, "code:" and a
\* token without white space
TokenOf(line) ==
    LET c == Slice(line, measureIndent(line).indent)
    IN  IF /\ Len(c) > 5 /\ SubSeq(c, 1, 5) = <<"c", "o", "d", "e", ":">>
           /\ \A n \in 6..Len(c) : ~IsSpace(c[n])
        THEN Slice(c, 5) ELSE NoMatch

\* the positions of the dots of a token
Dots(t) == {n \in DOMAIN t : t[n] = "."}

LastDot(t) == CHOOSE n \in Dots(t) : \A m \in Dots(t) : m <= n

\* C26 as stated: a line code:<token> is a code-block start whose
\* codeBlockLang is the text after the last "." of the token, and empty
\* when the token has no "."
C26_Original ==
    (Len(results) = 1 /\ TokenOf(input[1]) # NoMatch) =>
        LET t == TokenOf(input[1])
        IN  /\ results[1].isCodeBlock
            /\ results[1].codeBlockLang
                   = IF Dots(t) = {} THEN <<>> ELSE Slice(t, LastDot(t))

\* C26: a line code:<token> is a code-block start whose codeBlockLang is
\* the text after the last "." of the token when that text is one or more
\* letters, digits or underscores, and empty otherwise
C26_CodeBlockLang ==
    (Len(results) = 1 /\ TokenOf(input[1]) # NoMatch) =>
        LET t == TokenOf(input[1])
            ext == IF Dots(t) = {} THEN <<>> ELSE Slice(t, LastDot(t))
        IN  /\ results[1].isCodeBlock
            /\ ~results[1].isCodeBlockContent /\ ~results[1].isQuote
            /\ results[1].codeBlockLang
                   = IF \A n \in DOMAIN ext : IsWord(ext[n]) THEN ext ELSE <<>>
            /\ input[1] = <<"c", "o", "d", "e", ":", "t", "e", "s", "t", ".", "j", "s">>
                   => results[1].codeBlockLang = <<"j", "s">>
            /\ input[1] = <<"c", "o", "d", "e", ":", "D", "o", "c", "k", "e", "r", "f", "i", "l", "e">>
                   => results[1].codeBlockLang = <<>>

\* "code:test.js" is parsed: a code-block start with the language "js"
C26_Witness ==
    /\ input = << <<"c", "o", "d", "e", ":", "t", "e", "s", "t", ".", "j", "s">> >>
    /\ Len(results) = 1
    /\ results[1].isCodeBlock
    /\ results[1].codeBlockLang = <<"j", "s">>

-----------------------------------------------------------------------------
(* Properties of the node trees                                            *)

\* the nodes of a tree: the given nodes and the nodes below them
RECURSIVE TreeNodes(_)
TreeNodes(nodes) ==
    UNION { {nodes[n]} \cup (IF "children" \in DOMAIN nodes[n]
                             THEN TreeNodes(nodes[n].children) ELSE {}) :
                n \in DOMAIN nodes }

DecorationTypes == {"bold", "italic", "strikethrough", "underline"}

\* C27: in the tree of every parsed line every Bold, Italic, Strikethrough
\* and Underline node has at least one child, and a Code or Math node has
\* no children: its code or formula is the text between its delimiters
C27_DecorationsAndLiterals ==
    \A i \in DOMAIN results :
        \A node \in TreeNodes(results[i].nodes) :
            /\ node.type \in DecorationTypes =>
                   "children" \in DOMAIN node /\ Len(node.children) >= 1
            /\ node.type = "code" =>
                   /\ DOMAIN node = {"type", "raw", "code"}
                   /\ node.raw = <<"<U+0060>">> \o node.code \o <<"<U+0060>">>
            /\ node.type = "math" =>
                   /\ DOMAIN node = {"type", "raw", "formula"}
                   /\ node.raw = <<"[", "$", " ">> \o node.formula \o <<"]">>

\* "[* `[a`]" is parsed: a Bold node whose only child is the Code node
\* that holds "[a" as text
C27_Witness ==
    /\ input = << <<"[", "*", " ", "<U+0060>", "[", "a", "<U+0060>", "]">> >>
    /\ Len(results) = 1
    /\ results[1].nodes[1].type = "bold"
    /\ results[1].nodes[1].children
           = << [type |-> "code", raw |-> <<"<U+0060>", "[", "a", "<U+0060>">>,
                 code |-> <<"[", "a">>] >>

-----------------------------------------------------------------------------
(* Properties of the query specification                                   *)

QueryOps == {"get1HopLinks", "get2HopLinks", "getBackLinks", "getLinkContext"}

\* C28: a query leaves the graph as it is, for a title of the graph and
\* for a title the graph does not hold, and getBackLinks(graph, t) is the
\* incoming list of get1HopLinks(graph, t), empty when t has no entry
C28_QueriesReadOnly ==
    [][ (Built /\ history' = history /\ result'.op \in QueryOps) =>
            /\ graph' = graph
            /\ result'.op = "getBackLinks" =>
                   /\ result'.value = get1HopLinks(graph, result'.title).incoming
                   /\ result'.title \notin DOMAIN graph'.backLinks
                          => result'.value = <<>>
      ]_vars

\* after queries for D, which the graph does not hold, the graph still has
\* no entry for D
C28_Witness ==
    /\ Built
    /\ result = [op |-> "getBackLinks", title |-> D, value |-> <<>>]
    /\ D \notin DOMAIN graph.forwardLinks
    /\ D \notin DOMAIN graph.backLinks
    /\ D \notin Range(graph.existingPages)
    /\ A \in DOMAIN graph.backLinks

\* C29: in a graph that was built the two-hop relation is symmetric: y is
\* in get2HopLinks(graph, x) exactly when x is in get2HopLinks(graph, y)
C29_TwoHopSymmetric ==
    Built =>
        \A x, y \in GraphTitles :
            (y \in Range(get2HopLinks(graph, x)))
                = (x \in Range(get2HopLinks(graph, y)))

\* the chain A -> B -> C -> D is built and queried: C is two hops from A
\* and A is two hops from C
C29_Witness ==
    /\ pages = ChainPages
    /\ result.op = "get2HopLinks" /\ result.title = A
    /\ C \in Range(result.value)
    /\ A \in Range(get2HopLinks(graph, C))

-----------------------------------------------------------------------------
(* The page files: generatePageFilename and the page loop of main          *)

MAX_FILENAME_LENGTH == 200

\* title.replace(/\//g, "_")
safeTitleOf(title) == [i \in DOMAIN title |-> IF title[i] = "/" THEN "_" ELSE title[i]]

\* the bytes of a character in UTF-8: three for the characters written as
\* tokens, one for the others
Utf8Bytes(c) == IF c \in {"<U+3000>", "<U+300D>", "<U+FF09>", "<U+3011>"} THEN 3 ELSE 1

\* Buffer.byteLength(s, "utf8"): the sum of the bytes of the characters
byteLength(s) ==
    Cardinality({i \in DOMAIN s : Utf8Bytes(s[i]) = 1})
        + 3 * Cardinality({i \in DOMAIN s : Utf8Bytes(s[i]) = 3})

\* the titles of the inputs that are longer than MAX_FILENAME_LENGTH bytes
LongTitles ==
    << [i \in 1..(MAX_FILENAME_LENGTH + 1) |-> "a"],
       [i \in 1..(MAX_FILENAME_LENGTH + 1) |-> IF i = 1 THEN "/" ELSE "a"],
       [i \in 1..(MAX_FILENAME_LENGTH + 1) |-> IF i = 1 THEN "_" ELSE "a"],
       [i \in 1..67 |-> "<U+3000>"] >>

\* crypto.createHash("md5").update(title).digest("hex"): hexadecimal
\* digits; the digests of the long titles of the inputs differ from each
\* other (no collision of md5 is among the inputs)
md5Hex(title) ==
    LET digits == <<"0", "1", "2", "3", "4", "5", "6", "7", "8", "9",
                    "a", "b", "c", "d", "e", "f">>
        n == IF \E k \in DOMAIN LongTitles : LongTitles[k] = title
             THEN CHOOSE k \in DOMAIN LongTitles : LongTitles[k] = title
             ELSE 0
    IN  <<"d", "4", digits[n + 1]>>

generatePageFilename(title) ==
    LET safeTitle == safeTitleOf(title)
        html == <<".", "h", "t", "m", "l">>
    IN  IF byteLength(safeTitle) > MAX_FILENAME_LENGTH
        THEN <<"p", "a", "g", "e", "_">> \o md5Hex(title) \o html
        ELSE safeTitle \o html

-----------------------------------------------------------------------------
(* The page-file specification: main writes one file per page              *)

\* the titles of the generated page lists
FileTitles ==
    { <<"a">>, <<"a", "/", "b">>, <<"a", "_", "b">>, <<"a", " ", "b">>,
      <<"/">>, <<"_">>, <<"T", "e", "s", "t", "/", "P", "a", "g", "e">>,
      [i \in 1..MAX_FILENAME_LENGTH |-> "a"] }
        \cup Range(LongTitles)

\* page lists without a repeated title
FileInputs ==
    { ps \in SeqsUpTo({Page(t, <<>>) : t \in FileTitles}, MaxPages - 1) :
          \A i, j \in DOMAIN ps : ps[i].title = ps[j].title => i = j }

\* one iteration of the page loop: fs.writeFile(path.join(pagesDir,
\* generatePageFilename(page.title)), html of the page)
WritePage ==
    /\ written < Len(pages)
    /\ LET page == pages[written + 1]
       IN  files' = MapSet(files, generatePageFilename(page.title), page.title)
    /\ written' = written + 1
    /\ UNCHANGED <<graphVars, parserVars, uploadVars, poolVars>>

InitWrite ==
    /\ pages \in FileInputs
    /\ graph = NoGraph
    /\ history = <<>>
    /\ edit = NoEdit
    /\ result = NoResult
    /\ ParserIdle
    /\ IoIdle

NextWrite == WritePage

SpecWrite == InitWrite /\ [][NextWrite]_vars

-----------------------------------------------------------------------------
(* Properties of the page-file specification                               *)

\* the pages written so far
PagesWritten == 1..written

\* the file name of every page ends in .html and holds no "/"
WellFormedNames ==
    \A i \in DOMAIN pages :
        LET name == generatePageFilename(pages[i].title)
        IN  /\ EndsWith(name, <<".", "h", "t", "m", "l">>)
            /\ \A n \in DOMAIN name : name[n] # "/"

\* C30: pages with different titles have different file names, each ending
\* in .html and without "/", and the file of a page written is not
\* overwritten by the file of another page
C30_DistinctFilenames ==
    /\ WellFormedNames
    /\ \A i, j \in PagesWritten :
           pages[i].title # pages[j].title =>
               generatePageFilename(pages[i].title)
                   # generatePageFilename(pages[j].title)
    /\ \A i \in PagesWritten :
           /\ generatePageFilename(pages[i].title) \in DOMAIN files
           /\ files[generatePageFilename(pages[i].title)] = pages[i].title

\* the same for the page lists in which no two titles differ only in "/"
\* against "_"
C30_DistinctSafeTitles ==
    (\A i, j \in DOMAIN pages :
         safeTitleOf(pages[i].title) = safeTitleOf(pages[j].title) => i = j) =>
        /\ WellFormedNames
        /\ \A i \in PagesWritten :
               /\ generatePageFilename(pages[i].title) \in DOMAIN files
               /\ files[generatePageFilename(pages[i].title)] = pages[i].title

-----------------------------------------------------------------------------
(* The Gyazo uploader: uploadImageToGyazo                                  *)

\* s.split(";")[0]
BeforeSemicolon(s) ==
    IF \E i \in DOMAIN s : s[i] = ";"
    THEN SubSeq(s, 1, (CHOOSE i \in DOMAIN s :
                           s[i] = ";" /\ \A j \in 1..(i - 1) : s[j] # ";") - 1)
    ELSE s

\* the extensions and the content types of the images
ImageTypes ==
    << [ext |-> <<"p", "n", "g">>, type |-> <<"i", "m", "a", "g", "e", "/", "p", "n", "g">>],
       [ext |-> <<"j", "p", "g">>, type |-> <<"i", "m", "a", "g", "e", "/", "j", "p", "e", "g">>],
       [ext |-> <<"j", "p", "e", "g">>, type |-> <<"i", "m", "a", "g", "e", "/", "j", "p", "e", "g">>],
       [ext |-> <<"g", "i", "f">>, type |-> <<"i", "m", "a", "g", "e", "/", "g", "i", "f">>],
       [ext |-> <<"w", "e", "b", "p">>, type |-> <<"i", "m", "a", "g", "e", "/", "w", "e", "b", "p">>],
       [ext |-> <<"s", "v", "g">>, type |-> <<"i", "m", "a", "g", "e", "/", "s", "v", "g", "+", "x", "m", "l">>],
       [ext |-> <<"b", "m", "p">>, type |-> <<"i", "m", "a", "g", "e", "/", "b", "m", "p">>] >>

\* extToContentType[ext] || "image/png"
extToContentType(ext) ==
    IF \E n \in DOMAIN ImageTypes : ImageTypes[n].ext = ext
    THEN ImageTypes[CHOOSE n \in DOMAIN ImageTypes : ImageTypes[n].ext = ext].type
    ELSE <<"i", "m", "a", "g", "e", "/", "p", "n", "g">>

\* typeMap[type] of guessExtension, or NoMatch: the first extension of the
\* content type (jpg for image/jpeg)
typeMap(type) ==
    IF \E n \in DOMAIN ImageTypes : ImageTypes[n].type = type
    THEN LET n == CHOOSE n \in DOMAIN ImageTypes :
                      /\ ImageTypes[n].type = type
                      /\ \A m \in 1..(n - 1) : ImageTypes[m].type # type
         IN  ImageTypes[n].ext
    ELSE NoMatch

\* [a-zA-Z0-9]
IsAlnum(c) == IsWord(c) /\ c # "_"

\* group 1 of url.match(/\.([a-zA-Z0-9]+)(?:\?.*)?$/), or NoMatch: the
\* letters and digits after a dot that reach the end of the url or a "?"
UrlExtension(url) ==
    LET ends == {Len(url)} \cup {q - 1 : q \in {i \in DOMAIN url : url[i] = "?"}}
        dots == {d \in DOMAIN url :
                    /\ url[d] = "."
                    /\ \E e \in ends :
                           /\ e > d
                           /\ \A j \in (d + 1)..e : IsAlnum(url[j])}
    IN  IF dots = {} THEN NoMatch
        ELSE LET d == CHOOSE d \in dots : \A x \in dots : d <= x
                 e == CHOOSE e \in ends :
                          /\ e > d
                          /\ \A j \in (d + 1)..e : IsAlnum(url[j])
                          /\ e = Len(url) \/ ~IsAlnum(url[e + 1])
             IN  SubSeq(url, d + 1, e)

\* guessExtension(url, contentType)
guessExtension(url, contentType) ==
    LET fromType == IF Len(contentType) > 0
                    THEN typeMap(Trim(BeforeSemicolon(contentType)))
                    ELSE NoMatch
        fromUrl == IF UrlExtension(url) = NoMatch THEN NoMatch
                   ELSE LowerStr(UrlExtension(url))
    IN  IF fromType # NoMatch THEN fromType
        ELSE IF /\ fromUrl # NoMatch
                /\ \E n \in DOMAIN ImageTypes : ImageTypes[n].ext = fromUrl
        THEN fromUrl
        ELSE <<"p", "n", "g">>

\* path.extname(localPath).toLowerCase().slice(1): what follows the last
\* dot of the last segment of the path, when the dot is not its first
\* character
LocalExtension(localPath) ==
    LET slashes == {i \in DOMAIN localPath : localPath[i] = "/"}
        base == IF slashes = {} THEN 1
                ELSE (CHOOSE i \in slashes : \A j \in slashes : j <= i) + 1
        dots == {i \in (base + 1)..Len(localPath) : localPath[i] = "."}
    IN  IF dots = {} THEN <<>>
        ELSE LowerStr(Slice(localPath, CHOOSE i \in dots : \A j \in dots : j <= i))

\* url.includes("scrapbox.io/files/")
IsScrapboxFile(url) == Includes(url, <<"s", "c", "r", "a", "p", "b", "o", "x", ".", "i", "o", "/", "f", "i", "l", "e", "s", "/">>)

\* the UploadResult of the catch block
FailedUpload(url, message) ==
    [originalUrl |-> url, gyazoUrl |-> url, gyazoImageUrl |-> url,
     success |-> FALSE, error |-> message]

\* the UploadResult of an upload that Gyazo answered
SucceededUpload(url, response) ==
    [originalUrl |-> url, gyazoUrl |-> response.permalink_url,
     gyazoImageUrl |-> response.url, success |-> TRUE]

\* the answer of the Gyazo upload API
GyazoResponse ==
    [permalink_url |-> <<"h", "t", "t", "p", "s", ":", "/", "/", "g", "y", "a", "z", "o", ".", "c", "o", "m", "/", "0", "f">>, url |-> <<"h", "t", "t", "p", "s", ":", "/", "/", "i", ".", "g", "y", "a", "z", "o", ".", "c", "o", "m", "/", "0", "f", ".", "p", "n", "g">>]

\* the messages of the errors thrown on the way
ErrorMessage(outcome) ==
    CASE outcome = "readError" -> "EACCES: permission denied"
      [] outcome = "network" -> "fetch failed"
      [] outcome = "downloadStatus" -> "Failed to fetch image: 404 Not Found"
      [] outcome = "body" -> "terminated"
      [] outcome = "uploadStatus" -> "Gyazo upload failed: 500 Internal Server Error - error"
      [] outcome = "json" -> "Unexpected end of JSON input"

\* response.headers.get("content-type") || "image/png"
ContentTypeOf(header) == IF header = <<>> THEN <<"i", "m", "a", "g", "e", "/", "p", "n", "g">> ELSE header

\* a request of the call and how it ended ("pending" until then)
Request(kind, detail) == [kind |-> kind, detail |-> detail, outcome |-> "pending"]

\* the last request ends
Ended(outcome) ==
    [requests EXCEPT ![Len(requests)] = [@ EXCEPT !.outcome = outcome]]

\* fetch(url, {headers, redirect: "follow"}) of fetchImageData: the Cookie
\* header is sent for a Scrapbox file when connectSid is given
DownloadRequest ==
    Request("download",
            [url |-> upload.url,
             cookie |-> upload.connectSid # <<>> /\ IsScrapboxFile(upload.url)])

\* fetch(GYAZO_UPLOAD_ENDPOINT, ...) of uploadToGyazo with the file name
UploadRequest(contentType) ==
    Request("upload",
            [filename |-> <<"i", "m", "a", "g", "e", ".">> \o guessExtension(upload.url, contentType)])

\* the call starts: fs.access(localPath) when a localPath is given, and the
\* download otherwise
BeginUpload ==
    /\ upload.pc = "called"
    /\ IF upload.localPath # <<>>
       THEN /\ requests' = Append(requests, Request("access", upload.localPath))
            /\ upload' = [upload EXCEPT !.pc = "checking"]
       ELSE /\ requests' = Append(requests, DownloadRequest)
            /\ upload' = [upload EXCEPT !.pc = "downloading"]
    /\ UNCHANGED <<graphVars, parserVars, outputVars, poolVars>>

\* fs.access ends: the file is read when it exists, the url is downloaded
\* when it does not
AccessDone(exists) ==
    /\ upload.pc = "checking"
    /\ IF exists
       THEN /\ requests' = Append(Ended("exists"),
                                  Request("readFile", upload.localPath))
            /\ upload' = [upload EXCEPT !.pc = "reading"]
       ELSE /\ requests' = Append(Ended("missing"), DownloadRequest)
            /\ upload' = [upload EXCEPT !.pc = "downloading"]
    /\ UNCHANGED <<graphVars, parserVars, outputVars, poolVars>>

\* fs.readFile ends
ReadDone(outcome) ==
    /\ upload.pc = "reading"
    /\ IF outcome = "ok"
       THEN /\ requests' = Append(Ended("ok"),
                                  UploadRequest(extToContentType(
                                      LocalExtension(upload.localPath))))
            /\ upload' = [upload EXCEPT !.pc = "uploading"]
       ELSE /\ requests' = Ended(outcome)
            /\ upload' = [upload EXCEPT
                              !.pc = "resolved",
                              !.result = FailedUpload(upload.url, ErrorMessage(outcome))]
    /\ UNCHANGED <<graphVars, parserVars, outputVars, poolVars>>

\* the download without the try block: an error rejects the promise
DownloadDoneUncaught(outcome, contentType) ==
    /\ upload.pc = "downloading"
    /\ IF outcome = "ok"
       THEN /\ requests' = Append(Ended("ok"), UploadRequest(ContentTypeOf(contentType)))
            /\ upload' = [upload EXCEPT !.pc = "uploading"]
       ELSE /\ requests' = Ended(outcome)
            /\ upload' = [upload EXCEPT !.pc = "rejected"]
    /\ UNCHANGED <<graphVars, parserVars, outputVars, poolVars>>

\* the download ends: fetch rejects, the status is not ok, the body fails,
\* or the data arrive with the content-type header (image/png without one)
DownloadDone(outcome, contentType) ==
    /\ upload.pc = "downloading"
    /\ IF outcome = "ok"
       THEN /\ requests' = Append(Ended("ok"), UploadRequest(ContentTypeOf(contentType)))
            /\ upload' = [upload EXCEPT !.pc = "uploading"]
       ELSE /\ requests' = Ended(outcome)
            /\ upload' = [upload EXCEPT
                              !.pc = "resolved",
                              !.result = FailedUpload(upload.url, ErrorMessage(outcome))]
    /\ UNCHANGED <<graphVars, parserVars, outputVars, poolVars>>

\* the upload ends: fetch rejects, the status is not ok (and the text of
\* the answer arrives or fails), the answer is no JSON, or Gyazo answers
\* with the urls of the image
UploadDone(outcome) ==
    /\ upload.pc = "uploading"
    /\ requests' = Ended(outcome)
    /\ upload' = [upload EXCEPT
                      !.pc = "resolved",
                      !.result = IF outcome = "ok"
                                 THEN SucceededUpload(upload.url, GyazoResponse)
                                 ELSE FailedUpload(upload.url, ErrorMessage(outcome))]
    /\ UNCHANGED <<graphVars, parserVars, outputVars, poolVars>>

-----------------------------------------------------------------------------
(* The upload specification: one uploadImageToGyazo call                   *)

UploadUrls ==
    { <<"h", "t", "t", "p", "s", ":", "/", "/", "a", ".", "b", "/", "x", ".", "g", "i", "f">>, <<"h", "t", "t", "p", "s", ":", "/", "/", "a", ".", "b", "/", "x", ".", "j", "p", "g", "?", "w", "=", "1">>, <<"h", "t", "t", "p", "s", ":", "/", "/", "a", ".", "b", "/", "x">>,
      <<"h", "t", "t", "p", "s", ":", "/", "/", "s", "c", "r", "a", "p", "b", "o", "x", ".", "i", "o", "/", "f", "i", "l", "e", "s", "/", "1", ".", "p", "n", "g">>, <<>> }

\* options.localPath: none, or the path of a downloaded file
LocalPaths == { <<>>, <<"a", "s", "s", "e", "t", "s", "/", "i", "m", "a", "g", "e", "s", "/", "x", ".", "j", "p", "g">>, <<"a", "s", "s", "e", "t", "s", "/", ".", "x", "/", "y">> }

\* options.connectSid: none, or a session id
ConnectSids == { <<>>, <<"s", "1">> }

\* the content-type headers of a download; without a header it is image/png
ContentTypes ==
    { <<"i", "m", "a", "g", "e", "/", "p", "n", "g">>, <<"i", "m", "a", "g", "e", "/", "j", "p", "e", "g", ";", " ", "c", "h", "a", "r", "s", "e", "t", "=", "b", "i", "n", "a", "r", "y">>, <<"t", "e", "x", "t", "/", "h", "t", "m", "l">>, <<>> }

DownloadOutcomes == {"ok", "network", "downloadStatus", "body"}
UploadOutcomes == {"ok", "network", "uploadStatus", "body", "json"}
ReadOutcomes == {"ok", "readError"}

InitUpload ==
    /\ upload \in [pc : {"called"}, url : UploadUrls, localPath : LocalPaths,
                   connectSid : ConnectSids, result : {NoResult}]
    /\ requests = <<>>
    /\ pages = <<>>
    /\ graph = NoGraph
    /\ history = <<>>
    /\ edit = NoEdit
    /\ result = NoResult
    /\ ParserIdle
    /\ OutputIdle
    /\ PoolIdle

NextUpload ==
    \/ BeginUpload
    \/ \E exists \in BOOLEAN : AccessDone(exists)
    \/ \E outcome \in ReadOutcomes : ReadDone(outcome)
    \/ \E outcome \in DownloadOutcomes : \E contentType \in ContentTypes :
          DownloadDone(outcome, contentType)
    \/ \E outcome \in UploadOutcomes : UploadDone(outcome)

SpecUpload == InitUpload /\ [][NextUpload]_vars

-----------------------------------------------------------------------------
(* Properties of the upload specification                                  *)

RequestKinds == [n \in DOMAIN requests |-> requests[n].kind]

\* a request of the kind ended with an outcome other than ok
Failed(kind) ==
    \E n \in DOMAIN requests :
        /\ requests[n].kind = kind
        /\ requests[n].outcome \notin {"ok", "pending"}

\* the call is waiting for its last request, or it has resolved
WaitingOrResolved ==
    \/ upload.pc = "called" /\ requests = <<>>
    \/ /\ upload.pc \in {"checking", "reading", "downloading", "uploading"}
       /\ requests[Len(requests)].outcome = "pending"
    \/ /\ upload.pc = "resolved"
       /\ \A n \in DOMAIN requests : requests[n].outcome # "pending"

\* C21: the call never rejects; when the download or the upload fails it
\* resolves to success = false with an error message and the input url for
\* originalUrl, gyazoUrl and gyazoImageUrl; when a localPath is given and
\* the file exists no download request is made, and the upload request is
\* the only network request
C21_NeverRejects ==
    /\ upload.pc # "rejected"
    /\ WaitingOrResolved
    /\ (upload.pc = "resolved" /\ (Failed("download") \/ Failed("upload"))) =>
           /\ ~upload.result.success
           /\ upload.result.error
                  \in {ErrorMessage(o) : o \in (DownloadOutcomes \cup UploadOutcomes) \ {"ok"}}
           /\ upload.result.originalUrl = upload.url
           /\ upload.result.gyazoUrl = upload.url
           /\ upload.result.gyazoImageUrl = upload.url
    /\ (upload.pc = "resolved" /\ upload.result.success) =>
           /\ ~Failed("download") /\ ~Failed("upload") /\ ~Failed("readFile")
           /\ requests[Len(requests)].kind = "upload"
    /\ (\E n \in DOMAIN requests :
            requests[n].kind = "access" /\ requests[n].outcome = "exists") =>
           /\ upload.localPath # <<>>
           /\ \A n \in DOMAIN requests : requests[n].kind # "download"
           /\ upload.pc \in {"uploading", "resolved"} /\ ~Failed("readFile") =>
                  RequestKinds = <<"access", "readFile", "upload">>

\* the local file existed and was read, and the upload failed: the call
\* resolved to a failed result without a download
C21_Witness ==
    /\ upload.pc = "resolved"
    /\ upload.localPath # <<>>
    /\ RequestKinds = <<"access", "readFile", "upload">>
    /\ requests[1].outcome = "exists"
    /\ requests[3].outcome = "uploadStatus"
    /\ upload.result = FailedUpload(upload.url, ErrorMessage("uploadStatus"))

-----------------------------------------------------------------------------
(* The worker pools: uploadImagesToGyazo, downloadImages, resolveGyazoUrls *)

\* [a-z0-9]
IsLowerOrDigit(c) == IsAlnum(c) /\ Lower(c) = c

\* ([a-zA-Z0-9]+)(\.[a-z0-9]+)?$ of GYAZO_PATTERN: the image id and the
\* optional extension up to the end of the url
IsGyazoPath(r) ==
    \E k \in 1..Len(r) :
        /\ \A j \in 1..k : IsAlnum(r[j])
        /\ \/ k = Len(r)
           \/ /\ k + 2 <= Len(r)
              /\ r[k + 1] = "."
              /\ \A j \in (k + 2)..Len(r) : IsLowerOrDigit(r[j])

\* GYAZO_PATTERN.test(url) with
\* /^https?:\/\/(i\.)?gyazo\.com\/([a-zA-Z0-9]+)(\.[a-z0-9]+)?$/
isGyazoUrl(url) ==
    \E prefix \in { <<"h", "t", "t", "p", ":", "/", "/", "g", "y", "a", "z", "o", ".", "c", "o", "m", "/">>, <<"h", "t", "t", "p", "s", ":", "/", "/", "g", "y", "a", "z", "o", ".", "c", "o", "m", "/">>,
                    <<"h", "t", "t", "p", ":", "/", "/", "i", ".", "g", "y", "a", "z", "o", ".", "c", "o", "m", "/">>, <<"h", "t", "t", "p", "s", ":", "/", "/", "i", ".", "g", "y", "a", "z", "o", ".", "c", "o", "m", "/">> } :
        /\ StartsWith(url, prefix)
        /\ IsGyazoPath(SubSeq(url, Len(prefix) + 1, Len(url)))

\* the urls the pool works on: resolveGyazoUrls keeps the Gyazo urls only
PoolUrls ==
    IF call.kind = "resolve" THEN SelectSeq(call.urls, isGyazoUrl) ELSE call.urls

\* the number of workers: Math.min(concurrency, urls.length), and
\* uploadImagesToGyazo allows three at most
WorkerCount ==
    LET actualConcurrency == IF call.kind = "upload"
                             THEN IF call.concurrency < 3 THEN call.concurrency ELSE 3
                             ELSE call.concurrency
    IN  IF actualConcurrency < Len(PoolUrls) THEN actualConcurrency ELSE Len(PoolUrls)

\* new Map() of uploadImagesToGyazo and resolveGyazoUrls, [] of downloadImages
NoResults == IF call.kind = "download" THEN <<>> ELSE EmptyMap

WorkerDone == [pc |-> "done", url |-> <<>>]

\* the head of the loop without queue.shift(): the url stays in the queue
TakeNextPeek(q, t) ==
    IF q = <<>> THEN [worker |-> WorkerDone, queue |-> q, taken |-> t]
    ELSE IF Head(q) = <<>>
    THEN [worker |-> WorkerDone, queue |-> q, taken |-> t]
    ELSE [worker |-> [pc |-> "item", url |-> Head(q)],
          queue |-> q, taken |-> Append(t, Head(q))]

\* the head of the loop of a worker: while (queue.length > 0) { const url =
\* queue.shift(); if (!url) break; ... the work on the url starts }
TakeNext(q, t) ==
    IF q = <<>> THEN [worker |-> WorkerDone, queue |-> q, taken |-> t]
    ELSE IF Head(q) = <<>>
    THEN [worker |-> WorkerDone, queue |-> Tail(q), taken |-> t]
    ELSE [worker |-> [pc |-> "item", url |-> Head(q)],
          queue |-> Tail(q), taken |-> Append(t, Head(q))]

\* the workers 1..n run one after the other up to their first await
RECURSIVE StartWorkers(_, _, _)
StartWorkers(n, q, t) ==
    IF n = 0 THEN [workers |-> <<>>, queue |-> q, taken |-> t]
    ELSE LET before == StartWorkers(n - 1, q, t)
             next == TakeNext(before.queue, before.taken)
         IN  [workers |-> Append(before.workers, next.worker),
              queue |-> next.queue, taken |-> next.taken]

\* the call up to await Promise.all(workers): an empty list is returned at
\* once by uploadImagesToGyazo and resolveGyazoUrls
StartPool ==
    /\ call.kind # "none"
    /\ call.pc = "called"
    /\ IF call.kind # "download" /\ PoolUrls = <<>>
       THEN /\ call' = [call EXCEPT !.pc = "returned"]
            /\ returned' = TRUE
            /\ poolResults' = NoResults
            /\ UNCHANGED <<queue, workers, taken>>
       ELSE LET started == StartWorkers(WorkerCount, PoolUrls, <<>>)
            IN  /\ call' = [call EXCEPT !.pc = "running"]
                /\ poolResults' = NoResults
                /\ queue' = started.queue
                /\ workers' = started.workers
                /\ taken' = started.taken
                /\ UNCHANGED returned
    /\ UNCHANGED <<completed, progress>>
    /\ UNCHANGED <<graphVars, parserVars, outputVars, uploadVars>>

\* the work of worker w on its url ends (it never rejects): the result is
\* stored, completed is incremented and onProgress is called; the worker of
\* uploadImagesToGyazo then waits 500 ms, the others go on with the queue
ItemDone(w, success) ==
    /\ call.kind # "none"
    /\ call.pc = "running"
    /\ w \in DOMAIN workers
    /\ workers[w].pc = "item"
    /\ LET url == workers[w].url
           itemResult == [originalUrl |-> url, success |-> success]
           next == TakeNext(queue, taken)
       IN  /\ poolResults' = IF call.kind = "download"
                             THEN Append(poolResults, itemResult)
                             ELSE MapSet(poolResults, url, itemResult)
           /\ completed' = completed + 1
           /\ progress' = IF call.onProgress
                          THEN Append(progress,
                                      [completed |-> completed + 1,
                                       total |-> Len(PoolUrls),
                                       result |-> itemResult])
                          ELSE progress
           /\ IF call.kind = "upload"
              THEN /\ workers' = [workers EXCEPT ![w] = [pc |-> "delay", url |-> url]]
                   /\ UNCHANGED <<queue, taken>>
              ELSE /\ workers' = [workers EXCEPT ![w] = next.worker]
                   /\ queue' = next.queue
                   /\ taken' = next.taken
    /\ UNCHANGED <<call, returned>>
    /\ UNCHANGED <<graphVars, parserVars, outputVars, uploadVars>>

\* the 500 ms of worker w of uploadImagesToGyazo are over
DelayDone(w) ==
    /\ call.kind # "none"
    /\ call.pc = "running"
    /\ w \in DOMAIN workers
    /\ workers[w].pc = "delay"
    /\ LET next == TakeNext(queue, taken)
       IN  /\ workers' = [workers EXCEPT ![w] = next.worker]
           /\ queue' = next.queue
           /\ taken' = next.taken
    /\ UNCHANGED <<call, poolResults, completed, progress, returned>>
    /\ UNCHANGED <<graphVars, parserVars, outputVars, uploadVars>>

\* await Promise.all(workers) is over: the results are returned
ReturnPool ==
    /\ call.kind # "none"
    /\ call.pc = "running"
    /\ \A w \in DOMAIN workers : workers[w].pc = "done"
    /\ call' = [call EXCEPT !.pc = "returned"]
    /\ returned' = TRUE
    /\ UNCHANGED <<queue, workers, poolResults, completed, progress, taken>>
    /\ UNCHANGED <<graphVars, parserVars, outputVars, uploadVars>>

-----------------------------------------------------------------------------
(* The pool specification: one call of a worker pool                       *)

MaxUrls == 4
MaxConcurrency == 4

\* two Gyazo urls, an image url of another site and a Gyazo page that is
\* no image url
ImageUrls ==
    { <<"h", "t", "t", "p", "s", ":", "/", "/", "g", "y", "a", "z", "o", ".", "c", "o", "m", "/", "a", "1">>, <<"h", "t", "t", "p", "s", ":", "/", "/", "i", ".", "g", "y", "a", "z", "o", ".", "c", "o", "m", "/", "b", "2", ".", "p", "n", "g">>,
      <<"h", "t", "t", "p", "s", ":", "/", "/", "a", ".", "b", "/", "x", ".", "p", "n", "g">>, <<"h", "t", "t", "p", "s", ":", "/", "/", "g", "y", "a", "z", "o", ".", "c", "o", "m", "/", "a", "1", "/", "r", "a", "w">> }

\* the lists of distinct non-empty urls
UrlLists == {l \in SeqsUpTo(ImageUrls, MaxUrls) : NoDuplicates(l)}

InitPool ==
    /\ call \in [kind : {"upload", "download", "resolve"}, pc : {"called"},
                 urls : UrlLists, concurrency : 1..MaxConcurrency,
                 onProgress : BOOLEAN]
    /\ queue = <<>>
    /\ workers = <<>>
    /\ poolResults = <<>>
    /\ completed = 0
    /\ progress = <<>>
    /\ taken = <<>>
    /\ returned = FALSE
    /\ pages = <<>>
    /\ graph = NoGraph
    /\ history = <<>>
    /\ edit = NoEdit
    /\ result = NoResult
    /\ ParserIdle
    /\ OutputIdle
    /\ UploadIdle

NextPool ==
    \/ StartPool
    \/ \E w \in 1..MaxConcurrency : \E success \in BOOLEAN : ItemDone(w, success)
    \/ \E w \in 1..MaxConcurrency : DelayDone(w)
    \/ ReturnPool

SpecPool == InitPool /\ [][NextPool]_vars

-----------------------------------------------------------------------------
(* Properties of the pool specification                                    *)

\* the urls of the results: the keys of the map, the originalUrl of the
\* entries of the list of downloadImages
ResultUrls ==
    IF call.kind = "download"
    THEN {poolResults[n].originalUrl : n \in DOMAIN poolResults}
    ELSE DOMAIN poolResults

\* one result per url of the list l, the result of that url
OneResultPer(l) ==
    /\ ResultUrls = Range(l)
    /\ IF call.kind = "download"
       THEN Len(poolResults) = Len(l) /\ NoDuplicates(poolResults)
       ELSE \A u \in DOMAIN poolResults : poolResults[u].originalUrl = u

\* the pool took the urls of l once each, returned one result per url and
\* reported completed = 1, 2, ..., Len(l) in that order
PoolWorkedOn(l) ==
    /\ NoDuplicates(taken)
    /\ \A n \in DOMAIN progress : progress[n].completed = n
    /\ returned =>
           /\ Len(taken) = Len(l) /\ Range(taken) = Range(l)
           /\ OneResultPer(l)
           /\ call.onProgress => Len(progress) = Len(l)

\* C22 as stated: each of the three pools takes every url of the input
\* list once, returns one result per input url and calls onProgress
\* urls.length times with completed = 1, 2, ..., urls.length
C22_Original == PoolWorkedOn(call.urls)

\* C22: for every list of distinct non-empty urls, every concurrency >= 1
\* and every order of completion, uploadImagesToGyazo and downloadImages
\* take each url from the queue exactly once, return exactly one result
\* per input url and call onProgress urls.length times with completed = 1,
\* 2, ..., urls.length in that order; resolveGyazoUrls does the same for
\* the urls of the list that are Gyazo urls, and returns nothing and
\* reports nothing for the others
C22_PoolPerUrl ==
    /\ call.kind \in {"upload", "download"} => PoolWorkedOn(call.urls)
    /\ call.kind = "resolve" =>
           /\ PoolWorkedOn(SelectSeq(call.urls, isGyazoUrl))
           /\ \A n \in DOMAIN call.urls :
                  ~isGyazoUrl(call.urls[n]) =>
                      /\ call.urls[n] \notin Range(taken)
                      /\ call.urls[n] \notin ResultUrls
    /\ \A n \in DOMAIN progress :
           progress[n].total = Len(PoolUrls) /\ Len(progress) <= Len(PoolUrls)

\* an upload of three urls with two workers has returned, the second url
\* having completed before the first
C22_Witness ==
    /\ call.kind = "upload"
    /\ returned
    /\ call.concurrency = 2
    /\ Len(call.urls) = 3
    /\ Len(progress) = 3
    /\ progress[1].result.originalUrl = call.urls[2]
    /\ progress[1].completed = 1
    /\ progress[3].completed = 3

====
